---- MODULE Spec2Model ----
(***************************************************************************)
(* Model of the data-access layer of the MyAyu MVP (src/lib/api/dailyEntry) *)
(* and of the pages that call it.                                           *)
(*                                                                          *)
(* The hosted database is a set of tables (sets of rows).  Every await of   *)
(* a query is one atomic step against the tables; the code between two      *)
(* awaits belongs to the step of the query it follows.                      *)
(*                                                                          *)
(* Dates are ISO strings YYYY-MM-DD in the source; they are compared with   *)
(* <= / >= on strings, which is the calendar order, so a date is modelled   *)
(* as a day number.  A SQL NULL / JS null in an integer or date column is   *)
(* NULL, in a text column NullText.                                         *)
(***************************************************************************)
EXTENDS Integers, Sequences, FiniteSets

\* ------------------------------------------------------------------ bounds
MaxAnchorDate == 2
MaxDate == 3
MaxIntakes == 2
MaxCount == 40
MaxEvents == 3
MaxSaves == 2
MaxFetches == 3
MaxTouched == 2
MaxWindow == 1
MaxDelay == 2
MaxChanges == 3

\* --------------------------------------------------------------- constants
NULL == -1
NullText == "null"

Patients == {"p1", "p2"}
DEV_PATIENT_ID == "p1"
\* One browser session per role: the patient's and the clinician's.
PatientClient == "c1"
ClinicianClient == "c2"
Clients == {PatientClient, ClinicianClient}

AnchorDates == 1..MaxAnchorDate
Dates == 1..MaxDate

VARIABLES
  daily_entries,
  food_events,
  bowel_movements,
  exercise_events,
  cycle_logs,
  regimen_formulations,
  regimen_formulation_intakes,
  regimen_treatments,
  regimen_treatment_completions,
  sleep_blocks,
  early_morning_entries,
  daily_fluid_totals,
  vital_readings,
  medication_intakes,
  symptom_logs,
  cycle_comments,
  regimen_notes,
  pc,
  call,
  dailyEntry,
  result,
  queries,
  returned,
  clock,
  bundle,
  newLog,
  page,
  inflight,
  formData,
  debounce

\* The tables read only by getDailyEntryBundle and written by the sections.
subrecords == <<sleep_blocks, early_morning_entries, daily_fluid_totals,
                vital_readings, medication_intakes, symptom_logs,
                cycle_comments, regimen_notes>>

tables == <<daily_entries, food_events, bowel_movements, exercise_events,
            cycle_logs, regimen_formulations, regimen_formulation_intakes,
            regimen_treatments, regimen_treatment_completions, subrecords>>

satellites == <<food_events, bowel_movements, exercise_events,
                cycle_logs, regimen_formulations, regimen_formulation_intakes,
                regimen_treatments, regimen_treatment_completions, subrecords>>

vars == <<daily_entries, food_events, bowel_movements, exercise_events,
          cycle_logs, regimen_formulations, regimen_formulation_intakes,
          regimen_treatments, regimen_treatment_completions,
          sleep_blocks, early_morning_entries, daily_fluid_totals,
          vital_readings, medication_intakes, symptom_logs,
          cycle_comments, regimen_notes,
          pc, call, dailyEntry, result, queries, returned,
          clock, bundle, newLog, page, inflight, formData, debounce>>

\* The database clock and the state of the pages: the daily-entry page's
\* bundle, the cycle log a running handleSave obtained, the tracker page's
\* state and its range fetches in flight, the form of the EnergySection and
\* the state of a useDebounce hook.
session == <<clock, bundle, newLog, page, inflight, formData, debounce>>

\* ------------------------------------------------------------ daily_entries

\* A daily_entries row (created_at / updated_at are not modelled).
DailyEntryRow(id, p, d, ep, em, ee, ed, mood, refl, cd) ==
  [id |-> id, patient_id |-> p, date |-> d,
   energy_physical |-> ep, energy_mental |-> em, energy_emotional |-> ee,
   energy_drive |-> ed, overall_mood |-> mood, reflection |-> refl,
   cycle_day |-> cd]

\* No row: the data of a query that matched nothing (null).
NoRow == DailyEntryRow(0, "none", NULL, NULL, NULL, NULL, NULL, NULL, NULL, NULL)

\* gen_random_uuid(): an id no other row has.  The id is named after the
\* insert that generates it (the inserting session and the key it inserts),
\* so the ids of two different inserts differ and differ from the seeded ids.
NewEntryId(c, p, d) ==
  (IF p = "p1" THEN 0 ELSE 100) + 10 * d + (IF c = "c1" THEN 1 ELSE 2)

\* .from('daily_entries').select('*').eq('patient_id', p).eq('date', d)
SelectDailyEntry_NoDate(p, d) ==
  {r \in daily_entries : r.patient_id = p}

SelectDailyEntry(p, d) ==
  {r \in daily_entries : r.patient_id = p /\ r.date = d}

\* .single(): the row when exactly one row matched, else data = null with
\* error code PGRST116.
Single(rows) ==
  IF Cardinality(rows) = 1 THEN CHOOSE r \in rows : TRUE ELSE NoRow

\* UNIQUE(patient_id, date): the insert is rejected (SQLSTATE 23505) when a
\* row with the key exists.
UniqueViolation_Off(p, d) == FALSE

UniqueViolation(p, d) ==
  \E r \in daily_entries : r.patient_id = p /\ r.date = d

\* .insert({ patient_id, date }): every other column takes its default, NULL.
InsertedRow_Defaults(c, p, d) ==
  DailyEntryRow(NewEntryId(c, p, d), p, d, 0, 0, 0, 0, 0, NULL, NULL)

InsertedRow(c, p, d) ==
  DailyEntryRow(NewEntryId(c, p, d), p, d, NULL, NULL, NULL, NULL, NULL, NULL, NULL)

\* ------------------------------------------------------------------ calls

NoCall == [caller |-> "none", fn |-> "none", patientId |-> "none",
           date |-> NULL, fromDate |-> NULL, toDate |-> NULL]

\* ---------------------------------------------------------- query results
\* The data of a supabase response: null, an array of rows or one row; a
\* bundle field can also be undefined.  Row sets stand for arrays whose
\* order the queries leave unspecified.

NullData == [kind |-> "null", rows |-> {}]

Undefined == [kind |-> "undefined", rows |-> {}]

List(rows) == [kind |-> "list", rows |-> rows]

Row(r) == [kind |-> "row", rows |-> {r}]

Response(error, data) == [error |-> error, data |-> data]

\* A select of many rows: an empty array when nothing matches.
Select(rows, fails) ==
  IF fails THEN Response(TRUE, NullData) ELSE Response(FALSE, List(rows))

\* .maybeSingle(): null for no row, the row for one, an error for more.
MaybeSingle(rows, fails) ==
  IF fails \/ Cardinality(rows) > 1 THEN Response(TRUE, NullData)
  ELSE IF rows = {} THEN Response(FALSE, NullData)
  ELSE Response(FALSE, Row(CHOOSE r \in rows : TRUE))

\* Variant: ascending order, the oldest row first.
Latest_Oldest(rows) ==
  IF rows = {} THEN {}
  ELSE {CHOOSE r \in rows : \A o \in rows :
          o.created_at > r.created_at \/ (o.created_at = r.created_at /\ o.id >= r.id)}

\* .order('created_at', { ascending: false }).limit(1)
Latest(rows) ==
  IF rows = {} THEN {}
  ELSE {CHOOSE r \in rows : \A o \in rows :
          o.created_at < r.created_at \/ (o.created_at = r.created_at /\ o.id <= r.id)}

\* data || []
OrEmpty(data) == IF data.kind = "null" THEN List({}) ELSE data

\* data || undefined
OrUndefined(data) == IF data.kind = "null" THEN Undefined ELSE data

\* The fields of a DailyEntryBundle other than dailyEntry and the four
\* saved-item catalogs.
ListFields ==
  {"sleepBlocks", "foodEvents", "bowelMovements", "exerciseEvents",
   "vitalReadings", "medicationIntakes", "symptomLogs", "cycleComments",
   "regimenFormulations", "formulationIntakes", "regimenTreatments",
   "treatmentCompletions"}

SingularFields == {"earlyMorning", "fluidTotals", "cycleLog", "regimenNotes"}

NoBundle == [f \in ListFields \cup SingularFields |-> [kind |-> "none", rows |-> {}]]

NoResult ==
  [status |-> "none", error |-> "", entry |-> NoRow, rows |-> <<>>, bundle |-> NoBundle]

Ok(row, rows) ==
  [status |-> "ok", error |-> "", entry |-> row, rows |-> rows, bundle |-> NoBundle]

\* getDailyEntryBundle returns: dailyEntry and the assembled fields.
OkBundle(row, fields) ==
  [status |-> "ok", error |-> "", entry |-> row, rows |-> <<>>, bundle |-> fields]

\* getDailyEntryBundle between its two awaits: the batch's results are held.
Pending(fields) ==
  [status |-> "none", error |-> "", entry |-> NoRow, rows |-> <<>>, bundle |-> fields]

\* handleSupabaseError always throws; the catch blocks rethrow.
Thrown(code) ==
  [status |-> "error", error |-> code, entry |-> NoRow, rows |-> <<>>, bundle |-> NoBundle]

Free(c) == pc[c] \in {"idle", "done"}

Begin(c, caller, fn, p, d) ==
  /\ Free(c)
  /\ pc' = [pc EXCEPT ![c] = "fetch"]
  /\ call' = [call EXCEPT ![c] = [caller |-> caller, fn |-> fn, patientId |-> p,
                                  date |-> d, fromDate |-> NULL, toDate |-> NULL]]
  /\ dailyEntry' = [dailyEntry EXCEPT ![c] = NoRow]
  /\ result' = [result EXCEPT ![c] = NoResult]
  /\ queries' = [queries EXCEPT ![c] = <<>>]
  /\ UNCHANGED <<tables, returned, session>>

\* PatientDailyEntryPage.fetchBundle: getDailyEntryBundle(DEV_PATIENT_ID, selectedDate).
PatientFetchBundle(c, d) ==
  /\ c = PatientClient
  /\ Begin(c, "PatientDailyEntryPage", "getDailyEntryBundle", DEV_PATIENT_ID, d)

\* ClinicianDailyEntryPage.fetchData: getDailyEntryBundle(patientId, selectedDate),
\* run on load and after every handleDateChange.
ClinicianFetchData(c, p, d) ==
  /\ c = ClinicianClient
  /\ Begin(c, "ClinicianDailyEntryPage", "getDailyEntryBundle", p, d)

\* getOrCreateDailyEntry returns row: getDailyEntryBundle, its only caller,
\* binds it to dailyEntry.  returned records every value the function returned.
Resolve(c, row) ==
  /\ returned' = returned \cup {[patientId |-> call[c].patientId,
                                 date |-> call[c].date, row |-> row]}
  /\ pc' = [pc EXCEPT ![c] = "batch"]
  /\ dailyEntry' = [dailyEntry EXCEPT ![c] = row]
  /\ UNCHANGED result

Reject(c, code) ==
  /\ pc' = [pc EXCEPT ![c] = "done"]
  /\ result' = [result EXCEPT ![c] = Thrown(code)]
  /\ UNCHANGED <<dailyEntry, returned>>

\* getOrCreateDailyEntry, first await: the point lookup.
GetOrCreateFetch(c, fails) ==
  /\ pc[c] = "fetch"
  /\ queries' = [queries EXCEPT ![c] = Append(@, "daily_entries.select")]
  /\ UNCHANGED <<tables, call, session>>
  /\ LET existing == Single(SelectDailyEntry(call[c].patientId, call[c].date))
     IN IF fails
        THEN Reject(c, "network")
        ELSE IF existing # NoRow
        THEN Resolve(c, existing)
        ELSE /\ pc' = [pc EXCEPT ![c] = "insert"]
             /\ UNCHANGED <<dailyEntry, result, returned>>

\* getOrCreateDailyEntry, second await: the insert.
GetOrCreateInsert(c, fails) ==
  /\ pc[c] = "insert"
  /\ queries' = [queries EXCEPT ![c] = Append(@, "daily_entries.insert")]
  /\ UNCHANGED <<satellites, call, session>>
  /\ LET p == call[c].patientId
         d == call[c].date
     IN IF fails
        THEN Reject(c, "network") /\ UNCHANGED daily_entries
        ELSE IF UniqueViolation(p, d)
        THEN Reject(c, "23505") /\ UNCHANGED daily_entries
        ELSE /\ daily_entries' = daily_entries \cup {InsertedRow(c, p, d)}
             /\ Resolve(c, InsertedRow(c, p, d))

\* .eq('daily_entry_id', dailyEntry.id), with every row instead.
ByEntry_All(table, entryId) == table

\* .eq('daily_entry_id', dailyEntry.id)
ByEntry(table, entryId) == {r \in table : r.daily_entry_id = entryId}

\* The queries of the Promise.all, in array order.
BatchQueries ==
  <<"sleep_blocks", "early_morning_entries", "daily_fluid_totals", "food_events",
    "bowel_movements", "exercise_events", "vital_readings", "medication_intakes",
    "symptom_logs", "cycle_logs", "cycle_comments", "regimen_formulations",
    "regimen_formulation_intakes", "regimen_treatments",
    "regimen_treatment_completions", "regimen_notes", "saved_foods",
    "saved_exercises", "saved_meds", "saved_symptoms">>

\* The batch entries whose .error is checked: all but cycleCommentsRes.
CheckedQueries == {i \in DOMAIN BatchQueries : BatchQueries[i] # "cycle_comments"}

\* The responses of the batch when its failAt-th query fails (0: none).
\* The saved-item catalogs are not modelled: their queries return no rows.
BatchResponses(entryId, patientId, failAt) ==
  <<Select(ByEntry(sleep_blocks, entryId), failAt = 1),
    MaybeSingle(Latest(ByEntry(early_morning_entries, entryId)), failAt = 2),
    MaybeSingle(ByEntry(daily_fluid_totals, entryId), failAt = 3),
    Select(ByEntry(food_events, entryId), failAt = 4),
    Select(ByEntry(bowel_movements, entryId), failAt = 5),
    Select(ByEntry(exercise_events, entryId), failAt = 6),
    Select(ByEntry(vital_readings, entryId), failAt = 7),
    Select(ByEntry(medication_intakes, entryId), failAt = 8),
    Select(ByEntry(symptom_logs, entryId), failAt = 9),
    MaybeSingle(ByEntry(cycle_logs, entryId), failAt = 10),
    Select({m \in cycle_comments : m.cycle_log_id = entryId}, failAt = 11),
    Select({f \in regimen_formulations : f.patient_id = patientId}, failAt = 12),
    Select(ByEntry(regimen_formulation_intakes, entryId), failAt = 13),
    Select({t \in regimen_treatments : t.patient_id = patientId}, failAt = 14),
    Select(ByEntry(regimen_treatment_completions, entryId), failAt = 15),
    MaybeSingle(ByEntry(regimen_notes, entryId), failAt = 16),
    Select({}, failAt = 17),
    Select({}, failAt = 18),
    Select({}, failAt = 19),
    Select({}, failAt = 20)>>

\* The returned object, before the second-stage comments are known.
Bundle(res, cycleCommentsData) ==
  [sleepBlocks |-> OrEmpty(res[1].data),
   earlyMorning |-> OrUndefined(res[2].data),
   fluidTotals |-> OrUndefined(res[3].data),
   foodEvents |-> OrEmpty(res[4].data),
   bowelMovements |-> OrEmpty(res[5].data),
   exerciseEvents |-> OrEmpty(res[6].data),
   vitalReadings |-> OrEmpty(res[7].data),
   medicationIntakes |-> OrEmpty(res[8].data),
   symptomLogs |-> OrEmpty(res[9].data),
   cycleLog |-> OrUndefined(res[10].data),
   cycleComments |-> cycleCommentsData,
   regimenFormulations |-> OrEmpty(res[12].data),
   formulationIntakes |-> OrEmpty(res[13].data),
   regimenTreatments |-> OrEmpty(res[14].data),
   treatmentCompletions |-> OrEmpty(res[15].data),
   regimenNotes |-> OrUndefined(res[16].data)]

\* getDailyEntryBundle after the anchor is resolved: the parallel batch of
\* selects and the error checks; without a cycle log the bundle is returned.
BundleBatch(c, failAt) ==
  /\ pc[c] = "batch"
  /\ queries' = [queries EXCEPT ![c] = @ \o BatchQueries]
  /\ LET res == BatchResponses(dailyEntry[c].id, call[c].patientId, failAt)
         assembled == Bundle(res, List({}))
     IN IF \E i \in CheckedQueries : res[i].error
        THEN /\ pc' = [pc EXCEPT ![c] = "done"]
             /\ result' = [result EXCEPT ![c] =
                             Thrown(IF failAt \in CheckedQueries THEN "network"
                                    ELSE "PGRST116")]
        ELSE IF res[10].data.kind # "null"
        THEN /\ pc' = [pc EXCEPT ![c] = "comments"]
             /\ result' = [result EXCEPT ![c] = Pending(assembled)]
        ELSE /\ pc' = [pc EXCEPT ![c] = "done"]
             /\ result' = [result EXCEPT ![c] = OkBundle(dailyEntry[c], assembled)]
  /\ UNCHANGED <<tables, call, dailyEntry, returned, session>>

\* getDailyEntryBundle, last await: the comments of the cycle log the batch
\* returned.
BundleComments(c, fails) ==
  /\ pc[c] = "comments"
  /\ queries' = [queries EXCEPT ![c] = Append(@, "cycle_comments")]
  /\ pc' = [pc EXCEPT ![c] = "done"]
  /\ LET cycleLog == CHOOSE r \in result[c].bundle.cycleLog.rows : TRUE
         res == Select({m \in cycle_comments : m.cycle_log_id = cycleLog.id}, fails)
     IN result' = [result EXCEPT ![c] =
                     IF res.error THEN Thrown("network")
                     ELSE OkBundle(dailyEntry[c],
                                   [result[c].bundle EXCEPT
                                      !.cycleComments = OrEmpty(res.data)])]
  /\ UNCHANGED <<tables, call, dailyEntry, returned, session>>

\* ------------------------------------------- IEEE 754 double arithmetic
\* A positive double is [f, e]: its 53-bit significand is a leading 1 followed
\* by the four 13-bit limbs f[1..4], and its value is
\*   (2^52 + f[1]*2^39 + f[2]*2^26 + f[3]*2^13 + f[4]) * 2^e.
\* Zero is FZero.  Every operation rounds its exact result to nearest, ties
\* to even, as the hardware does.

Limb == 8192

FZero == [f |-> <<>>, e |-> 0]

\* The significand f, rounded up when the discarded part is more than half a
\* unit in the last place, or exactly half and the significand is odd.
RoundSig(f, e, moreThanHalf, exactlyHalf) ==
  IF moreThanHalf \/ (exactlyHalf /\ (f[4] % 2) = 1)
  THEN IF f[4] + 1 < Limb THEN [f |-> <<f[1], f[2], f[3], f[4] + 1>>, e |-> e]
       ELSE IF f[3] + 1 < Limb THEN [f |-> <<f[1], f[2], f[3] + 1, 0>>, e |-> e]
       ELSE IF f[2] + 1 < Limb THEN [f |-> <<f[1], f[2] + 1, 0, 0>>, e |-> e]
       ELSE IF f[1] + 1 < Limb THEN [f |-> <<f[1] + 1, 0, 0, 0>>, e |-> e]
       ELSE [f |-> <<0, 0, 0, 0>>, e |-> e + 1]
  ELSE [f |-> f, e |-> e]

\* Scale n / d by powers of two until d <= n < 2d; e counts the scaling.
RECURSIVE Normalize(_, _, _)
Normalize(n, d, e) ==
  IF n >= 2 * d THEN Normalize(n, 2 * d, e + 1)
  ELSE IF n < d THEN Normalize(2 * n, d, e - 1)
  ELSE [n |-> n, d |-> d, e |-> e]

\* The double n / d of two non-negative integers below 2^17 (d > 0): long
\* division, 13 bits at a time, then rounding on the remainder.
FDiv(n, d) ==
  IF n = 0 THEN FZero
  ELSE LET s == Normalize(n, d, 0)
           x1 == (s.n - s.d) * Limb
           x2 == (x1 % s.d) * Limb
           x3 == (x2 % s.d) * Limb
           x4 == (x3 % s.d) * Limb
           rem == x4 % s.d
       IN RoundSig(<<x1 \div s.d, x2 \div s.d, x3 \div s.d, x4 \div s.d>>,
                   s.e - 52, 2 * rem > s.d, 2 * rem = s.d)

\* The number of bits of n >= 1.
BitLen(n) == CHOOSE b \in 1..30 : (2^(b - 1)) <= n /\ n < (2^b)

\* The double x * k for an integer 1 <= k < 2^13: the exact product limb by
\* limb, shifted right to 53 bits, then rounding on the bits shifted out.
FMul(x, k) ==
  IF x.f = <<>> THEN FZero
  ELSE LET v4 == x.f[4] * k
           v3 == (x.f[3] * k) + (v4 \div Limb)
           v2 == (x.f[2] * k) + (v3 \div Limb)
           v1 == (x.f[1] * k) + (v2 \div Limb)
           p0 == k + (v1 \div Limb)
           p1 == v1 % Limb
           p2 == v2 % Limb
           p3 == v3 % Limb
           p4 == v4 % Limb
           extra == BitLen(p0) - 1
           w == 2^extra
           out == p4 % w
       IN RoundSig(<<((p0 % w) * Limb + p1) \div w, ((p1 % w) * Limb + p2) \div w,
                     ((p2 % w) * Limb + p3) \div w, ((p3 % w) * Limb + p4) \div w>>,
                   x.e + extra, 2 * out > w, extra > 0 /\ 2 * out = w)

\* Math.round(x) for 0 <= x < 2^27: the integer nearest to x, a tie going up.
MathRound(x) ==
  IF x.f = <<>> THEN 0
  ELSE LET fbits == 0 - x.e
           top == (2^26) + (x.f[1] * Limb) + x.f[2]
       IN IF fbits > 53 THEN 0
          ELSE IF fbits = 53 THEN 1
          ELSE IF fbits >= 27
               THEN (top \div (2^(fbits - 26))) + ((top \div (2^(fbits - 27))) % 2)
          ELSE (top * (2^(26 - fbits))) + (x.f[3] \div (Limb \div 2))

\* --------------------------------------------------------- satellite rows
\* Only the columns the range functions select are modelled.

FormulationRow(id, p, start, stop) ==
  [id |-> id, patient_id |-> p, start_date |-> start, stop_date |-> stop]

IntakeRow(id, entryId, formulationId, status) ==
  [id |-> id, daily_entry_id |-> entryId,
   regimen_formulation_id |-> formulationId, status |-> status]

TreatmentRow(id, p, start, stop) ==
  [id |-> id, patient_id |-> p, start_date |-> start, stop_date |-> stop]

CompletionRow(id, entryId, treatmentId, status) ==
  [id |-> id, daily_entry_id |-> entryId,
   regimen_treatment_id |-> treatmentId, status |-> status]

\* A row of sleep_blocks, early_morning_entries, daily_fluid_totals,
\* vital_readings, medication_intakes, symptom_logs or regimen_notes.
SubRecord(id, entryId, createdAt) ==
  [id |-> id, daily_entry_id |-> entryId, created_at |-> createdAt]

CommentRow(id, cycleLogId) == [id |-> id, cycle_log_id |-> cycleLogId]

\* food_events, bowel_movements: the range functions select daily_entry_id.
FoodRow(id, entryId) == [id |-> id, daily_entry_id |-> entryId]

BowelRow(id, entryId) == [id |-> id, daily_entry_id |-> entryId]

\* exercise_events: daily_entry_id and the nullable duration_minutes.
ExerciseRow(id, entryId, minutes) ==
  [id |-> id, daily_entry_id |-> entryId, duration_minutes |-> minutes]

\* cycle_logs: created_at is the insertion time, cycle_day is nullable.
CycleLogRow(id, entryId, p, cycleDay, createdAt) ==
  [id |-> id, daily_entry_id |-> entryId, patient_id |-> p,
   cycle_day |-> cycleDay, created_at |-> createdAt]

\* ---------------------------------------------------------- range functions

\* .order('date', { ascending: false }): rows by date, latest first.
RECURSIVE OrderByDateDesc(_)
OrderByDateDesc(rows) ==
  IF rows = {} THEN <<>>
  ELSE LET first == CHOOSE r \in rows : \A o \in rows :
                      o.date < r.date \/ (o.date = r.date /\ o.id <= r.id)
       IN <<first>> \o OrderByDateDesc(rows \ {first})

\* The first query of both range functions:
\* .eq('patient_id', patientId).gte('date', fromDate).lte('date', toDate)
RangeEntries_Exclusive(patientId, fromDate, toDate) ==
  {e \in daily_entries :
     e.patient_id = patientId /\ e.date > fromDate /\ e.date < toDate}

RangeEntries_AnyPatient(patientId, fromDate, toDate) ==
  {e \in daily_entries : e.date >= fromDate /\ e.date <= toDate}

RangeEntries(patientId, fromDate, toDate) ==
  {e \in daily_entries :
     e.patient_id = patientId /\ e.date >= fromDate /\ e.date <= toDate}

\* .in('daily_entry_id', entryIds)
InEntries(table, entryIds) == {r \in table : r.daily_entry_id \in entryIds}

\* .eq('patient_id', patientId)
OfPatient(table, patientId) == {r \in table : r.patient_id = patientId}

\* getDailySummaryRange: the formulations active on the entry's date.
activeFormulations_StartOnly(formulations, date) ==
  {f \in formulations : f.start_date = NULL \/ f.start_date <= date}

activeFormulations_Strict(formulations, date) ==
  {f \in formulations :
     /\ f.start_date = NULL \/ f.start_date < date
     /\ f.stop_date = NULL \/ f.stop_date > date}

activeFormulations(formulations, date) ==
  {f \in formulations :
     /\ f.start_date = NULL \/ f.start_date <= date
     /\ f.stop_date = NULL \/ f.stop_date >= date}

\* getDailySummaryRange: the day's intakes of active formulations that count.
takenFormulations_AnyEntry(formIntakes, entry, active) ==
  Cardinality({i \in formIntakes :
     /\ i.regimen_formulation_id \in {f.id : f \in active}
     /\ i.status \in {"taken", "partial"}})

takenFormulations(formIntakes, entry, active) ==
  Cardinality({i \in formIntakes :
     /\ i.daily_entry_id = entry.id
     /\ i.regimen_formulation_id \in {f.id : f \in active}
     /\ i.status \in {"taken", "partial"}})

\* getDailySummaryRange: Math.round((taken / active.length) * 100), or 0.
formAdherence_NoGuard(taken, activeLength) ==
  IF activeLength > 0 \/ taken > 0
  THEN MathRound(FMul(FDiv(taken, IF activeLength > 0 THEN activeLength ELSE 1), 100))
  ELSE 100

formAdherence(taken, activeLength) ==
  IF activeLength > 0
  THEN MathRound(FMul(FDiv(taken, activeLength), 100))
  ELSE 0

\* getDailySummaryRange: the same three steps for treatments.
activeTreatments(treatments, date) ==
  {t \in treatments :
     /\ t.start_date = NULL \/ t.start_date <= date
     /\ t.stop_date = NULL \/ t.stop_date >= date}

completedTreatments(treatmentComps, entry, active) ==
  Cardinality({c \in treatmentComps :
     /\ c.daily_entry_id = entry.id
     /\ c.regimen_treatment_id \in {t.id : t \in active}
     /\ c.status \in {"completed", "partial"}})

treatmentAdherence(completed, activeLength) ==
  IF activeLength > 0
  THEN MathRound(FMul(FDiv(completed, activeLength), 100))
  ELSE 0

\* .reduce((sum, e) => sum + (e.duration_minutes || 0), 0)
\* Variant: the number of events instead of their minutes.
SumDurations_Count(events) == Cardinality(events)

RECURSIVE SumDurations(_)
SumDurations(events) ==
  IF events = {} THEN 0
  ELSE LET e == CHOOSE x \in events : TRUE
       IN (IF e.duration_minutes = NULL THEN 0 ELSE e.duration_minutes)
          + SumDurations(events \ {e})

\* Variant: the counts and the cycle-log flag taken over all fetched rows,
\* without the filter on the entry's id.
DailySummary_Unfiltered(entry, foodCounts, bowelCounts, exercises, cycleLogs, formIntakes, treatmentComps, formulations, treatments) ==
  LET activeF == activeFormulations(formulations, entry.date)
      activeT == activeTreatments(treatments, entry.date)
  IN [date |-> entry.date,
      energy_physical |-> entry.energy_physical,
      energy_mental |-> entry.energy_mental,
      energy_emotional |-> entry.energy_emotional,
      energy_drive |-> entry.energy_drive,
      overall_mood |-> entry.overall_mood,
      food_count |-> Cardinality(foodCounts),
      bowel_movement_count |-> Cardinality(bowelCounts),
      exercise_minutes |-> SumDurations({e \in exercises : e.daily_entry_id = entry.id}),
      formulation_adherence_percent |->
        formAdherence(takenFormulations(formIntakes, entry, activeF), Cardinality(activeF)),
      treatment_adherence_percent |->
        treatmentAdherence(completedTreatments(treatmentComps, entry, activeT), Cardinality(activeT)),
      has_cycle_log |-> cycleLogs # {}]

\* getDailySummaryRange: the summary of one entry (the body of the map).
DailySummary(entry, foodCounts, bowelCounts, exercises, cycleLogs, formIntakes, treatmentComps, formulations, treatments) ==
  LET activeF == activeFormulations(formulations, entry.date)
      activeT == activeTreatments(treatments, entry.date)
  IN [date |-> entry.date,
      energy_physical |-> entry.energy_physical,
      energy_mental |-> entry.energy_mental,
      energy_emotional |-> entry.energy_emotional,
      energy_drive |-> entry.energy_drive,
      overall_mood |-> entry.overall_mood,
      food_count |-> Cardinality({f \in foodCounts : f.daily_entry_id = entry.id}),
      bowel_movement_count |-> Cardinality({b \in bowelCounts : b.daily_entry_id = entry.id}),
      exercise_minutes |-> SumDurations({e \in exercises : e.daily_entry_id = entry.id}),
      formulation_adherence_percent |->
        formAdherence(takenFormulations(formIntakes, entry, activeF), Cardinality(activeF)),
      treatment_adherence_percent |->
        treatmentAdherence(completedTreatments(treatmentComps, entry, activeT), Cardinality(activeT)),
      has_cycle_log |-> \E c \in cycleLogs : c.daily_entry_id = entry.id]

\* getDailySummaryRange after the entries query returned dailyEntries.
getDailySummaryRange(patientId, dailyEntries) ==
  LET entryIds == {dailyEntries[i].id : i \in 1..Len(dailyEntries)}
      foodCounts == InEntries(food_events, entryIds)
      bowelCounts == InEntries(bowel_movements, entryIds)
      exercises == InEntries(exercise_events, entryIds)
      cycleLogs == InEntries(cycle_logs, entryIds)
      formIntakes == InEntries(regimen_formulation_intakes, entryIds)
      treatmentComps == InEntries(regimen_treatment_completions, entryIds)
      formulations == OfPatient(regimen_formulations, patientId)
      treatments == OfPatient(regimen_treatments, patientId)
  IN [i \in 1..Len(dailyEntries) |->
        DailySummary(dailyEntries[i], foodCounts, bowelCounts, exercises, cycleLogs,
                     formIntakes, treatmentComps, formulations, treatments)]

\* getCycleRange: its own copies of the adherence steps.
cycleActiveFormulations(formulations, date) ==
  {f \in formulations :
     /\ f.start_date = NULL \/ f.start_date <= date
     /\ f.stop_date = NULL \/ f.stop_date >= date}

\* Variant: partial intakes not counted.
cycleTakenFormulations_TakenOnly(formIntakes, entry, active) ==
  Cardinality({i \in formIntakes :
     /\ i.daily_entry_id = entry.id
     /\ i.regimen_formulation_id \in {f.id : f \in active}
     /\ i.status = "taken"})

cycleTakenFormulations(formIntakes, entry, active) ==
  Cardinality({i \in formIntakes :
     /\ i.daily_entry_id = entry.id
     /\ i.regimen_formulation_id \in {f.id : f \in active}
     /\ i.status \in {"taken", "partial"}})

cycleFormAdherence_NoGuard(taken, activeLength) ==
  IF activeLength > 0 \/ taken > 0
  THEN MathRound(FMul(FDiv(taken, IF activeLength > 0 THEN activeLength ELSE 1), 100))
  ELSE 100

cycleFormAdherence(taken, activeLength) ==
  IF activeLength > 0
  THEN MathRound(FMul(FDiv(taken, activeLength), 100))
  ELSE 0

cycleActiveTreatments(treatments, date) ==
  {t \in treatments :
     /\ t.start_date = NULL \/ t.start_date <= date
     /\ t.stop_date = NULL \/ t.stop_date >= date}

cycleCompletedTreatments(treatmentComps, entry, active) ==
  Cardinality({c \in treatmentComps :
     /\ c.daily_entry_id = entry.id
     /\ c.regimen_treatment_id \in {t.id : t \in active}
     /\ c.status \in {"completed", "partial"}})

cycleTreatmentAdherence(completed, activeLength) ==
  IF activeLength > 0
  THEN MathRound(FMul(FDiv(completed, activeLength), 100))
  ELSE 0

\* Variant: the fallback is taken only when the log's cycle_day is unset
\* (cycleLog?.cycle_day ?? entry.cycle_day).
CycleDaySummary_Nullish(entry, cycleLogs, formIntakes, treatmentComps, formulations, treatments) ==
  LET logs == {c \in cycleLogs : c.daily_entry_id = entry.id}
      activeF == cycleActiveFormulations(formulations, entry.date)
      activeT == cycleActiveTreatments(treatments, entry.date)
  IN [date |-> entry.date,
      cycle_day |->
        IF logs = {} THEN entry.cycle_day
        ELSE LET cycleLog == CHOOSE c \in logs : \A o \in logs : c.id <= o.id
             IN IF cycleLog.cycle_day = NULL THEN entry.cycle_day
                ELSE cycleLog.cycle_day,
      energy_physical |-> entry.energy_physical,
      energy_mental |-> entry.energy_mental,
      energy_emotional |-> entry.energy_emotional,
      energy_drive |-> entry.energy_drive,
      overall_mood |-> entry.overall_mood,
      formulation_adherence_percent |->
        cycleFormAdherence(cycleTakenFormulations(formIntakes, entry, activeF), Cardinality(activeF)),
      treatment_adherence_percent |->
        cycleTreatmentAdherence(cycleCompletedTreatments(treatmentComps, entry, activeT), Cardinality(activeT))]

\* getCycleRange: the summary of one entry.  cycleLogs.find(...) is the
\* first matching row of the fetched array; cycle_day falls back to the
\* entry's when the log's is unset or 0 (cycleLog?.cycle_day || entry.cycle_day).
CycleDaySummary(entry, cycleLogs, formIntakes, treatmentComps, formulations, treatments) ==
  LET logs == {c \in cycleLogs : c.daily_entry_id = entry.id}
      activeF == cycleActiveFormulations(formulations, entry.date)
      activeT == cycleActiveTreatments(treatments, entry.date)
  IN [date |-> entry.date,
      cycle_day |->
        IF logs = {} THEN entry.cycle_day
        ELSE LET cycleLog == CHOOSE c \in logs : \A o \in logs : c.id <= o.id
             IN IF cycleLog.cycle_day \in {NULL, 0} THEN entry.cycle_day
                ELSE cycleLog.cycle_day,
      energy_physical |-> entry.energy_physical,
      energy_mental |-> entry.energy_mental,
      energy_emotional |-> entry.energy_emotional,
      energy_drive |-> entry.energy_drive,
      overall_mood |-> entry.overall_mood,
      formulation_adherence_percent |->
        cycleFormAdherence(cycleTakenFormulations(formIntakes, entry, activeF), Cardinality(activeF)),
      treatment_adherence_percent |->
        cycleTreatmentAdherence(cycleCompletedTreatments(treatmentComps, entry, activeT), Cardinality(activeT))]

\* getCycleRange after the entries query returned dailyEntries.
getCycleRange(patientId, dailyEntries) ==
  LET entryIds == {dailyEntries[i].id : i \in 1..Len(dailyEntries)}
      cycleLogs == InEntries(cycle_logs, entryIds)
      formIntakes == InEntries(regimen_formulation_intakes, entryIds)
      treatmentComps == InEntries(regimen_treatment_completions, entryIds)
      formulations == OfPatient(regimen_formulations, patientId)
      treatments == OfPatient(regimen_treatments, patientId)
  IN [i \in 1..Len(dailyEntries) |->
        CycleDaySummary(dailyEntries[i], cycleLogs, formIntakes, treatmentComps,
                        formulations, treatments)]

\* The queries each range function issues, in the order it awaits them.
RangeQueries(fn) ==
  IF fn = "getDailySummaryRange"
  THEN <<"daily_entries", "food_events", "bowel_movements", "exercise_events",
         "cycle_logs", "regimen_formulation_intakes",
         "regimen_treatment_completions", "regimen_formulations",
         "regimen_treatments">>
  ELSE <<"daily_entries", "cycle_logs", "regimen_formulation_intakes",
         "regimen_treatment_completions", "regimen_formulations",
         "regimen_treatments">>

\* The queries issued by a call whose entries query returned dailyEntries
\* and whose failAt-th query fails (0: none fails): an error is thrown right
\* after the query that fails, and an empty dailyEntries returns at once.
IssuedQueries_NoShortCircuit(fn, dailyEntries, failAt) ==
  IF failAt > 0 THEN SubSeq(RangeQueries(fn), 1, failAt)
  ELSE RangeQueries(fn)

IssuedQueries(fn, dailyEntries, failAt) ==
  IF failAt > 0 THEN SubSeq(RangeQueries(fn), 1, failAt)
  ELSE IF Len(dailyEntries) = 0 THEN <<"daily_entries">>
  ELSE RangeQueries(fn)

\* ClinicianTrackerPage.fetchSummaries / fetchCycleData: one whole call of
\* getDailySummaryRange or getCycleRange(patientId, fromDate, toDate).  No
\* table changes while the call runs, so its queries read one state.
RangeFetch(c, fn, patientId, fromDate, toDate, failAt) ==
  LET dailyEntries == OrderByDateDesc(RangeEntries(patientId, fromDate, toDate))
  IN /\ c = ClinicianClient
     /\ Free(c)
     /\ failAt <= Len(RangeQueries(fn))
     /\ failAt > 1 => Len(dailyEntries) > 0
     /\ pc' = [pc EXCEPT ![c] = "done"]
     /\ call' = [call EXCEPT ![c] =
                   [caller |-> "ClinicianTrackerPage", fn |-> fn,
                    patientId |-> patientId, date |-> NULL,
                    fromDate |-> fromDate, toDate |-> toDate]]
     /\ queries' = [queries EXCEPT ![c] = IssuedQueries(fn, dailyEntries, failAt)]
     /\ result' = [result EXCEPT ![c] =
                     IF failAt > 0 THEN Thrown("network")
                     ELSE IF Len(dailyEntries) = 0 THEN Ok(NoRow, <<>>)
                     ELSE IF fn = "getDailySummaryRange"
                     THEN Ok(NoRow, getDailySummaryRange(patientId, dailyEntries))
                     ELSE Ok(NoRow, getCycleRange(patientId, dailyEntries))]
     /\ UNCHANGED <<tables, dailyEntry, returned, session>>

\* ----------------------------------------------------- getRegimenForDate

\* .eq('patient_id', patientId).lte('start_date', date)
\* .or(`stop_date.is.null,stop_date.gte.${date}`): a comparison with a null
\* start_date is not true in SQL, so the row is filtered out.
RegimenActiveOn(table, patientId, date) ==
  {r \in table :
     /\ r.patient_id = patientId
     /\ r.start_date # NULL /\ r.start_date <= date
     /\ r.stop_date = NULL \/ r.stop_date >= date}

\* getRegimenForDate(patientId, date), as one step: the formulations query,
\* then the treatments query; the failAt-th query fails (0: none).  The
\* result's rows are <<formulations, treatments>>.
GetRegimenForDate(c, patientId, date, failAt) ==
  /\ Free(c)
  /\ pc' = [pc EXCEPT ![c] = "done"]
  /\ call' = [call EXCEPT ![c] =
                [caller |-> "api", fn |-> "getRegimenForDate",
                 patientId |-> patientId, date |-> date,
                 fromDate |-> NULL, toDate |-> NULL]]
  /\ queries' = [queries EXCEPT ![c] =
                   IF failAt = 1 THEN <<"regimen_formulations">>
                   ELSE <<"regimen_formulations", "regimen_treatments">>]
  /\ result' = [result EXCEPT ![c] =
                  IF failAt > 0 THEN Thrown("network")
                  ELSE Ok(NoRow, <<RegimenActiveOn(regimen_formulations, patientId, date),
                                   RegimenActiveOn(regimen_treatments, patientId, date)>>)]
  /\ UNCHANGED <<tables, dailyEntry, returned, session>>

\* ------------------------------------------- daily-entry page sections
\* The patient's daily-entry page holds the bundle of one day; its sections
\* read the bundle as their data prop and save on blur.  Clients are the
\* invocations of CycleSection.handleSave that can be in progress together.

\* Inverse of dailyEntry.id for the seeded entry shown by the page.
PageEntry == DailyEntryRow(10, DEV_PATIENT_ID, 1, NULL, NULL, NULL, NULL, NULL, NULL, NULL)

\* The id the database gives a row inserted now.
NewId == 200 + clock

\* formData.cycle_day, parsed.
FormCycleDay == 1

\* fetchBundle, as one step: setBundle(data) when getDailyEntryBundle
\* succeeds, setError otherwise (the bundle is kept).
PageRefresh ==
  LET res == BatchResponses(PageEntry.id, PageEntry.patient_id, 0)
      logs == res[10].data.rows
      comments == {m \in cycle_comments : \E l \in logs : m.cycle_log_id = l.id}
  IN /\ \A i \in CheckedQueries : ~res[i].error
     /\ bundle' = Bundle(res, List(comments))
     /\ bundle' # bundle
     /\ UNCHANGED <<tables, pc, call, dailyEntry, result, queries, returned, formData, debounce,
                    clock, newLog, page, inflight>>

\* CycleSection.handleSave up to its first await.
CycleHandleSave(c) ==
  /\ Free(c)
  /\ bundle # NoBundle
  /\ call' = [call EXCEPT ![c] =
                [caller |-> "CycleSection", fn |-> "handleSave",
                 patientId |-> PageEntry.patient_id, date |-> PageEntry.date,
                 fromDate |-> NULL, toDate |-> NULL]]
  /\ result' = [result EXCEPT ![c] = NoResult]
  /\ queries' = [queries EXCEPT ![c] = <<>>]
  /\ IF bundle.cycleLog = Undefined
     THEN /\ pc' = [pc EXCEPT ![c] = "cycle.fetch"]
          /\ newLog' = [newLog EXCEPT ![c] = NoRow]
     ELSE /\ pc' = [pc EXCEPT ![c] = "cycle.upsert"]
          /\ newLog' = [newLog EXCEPT ![c] = CHOOSE r \in bundle.cycleLog.rows : TRUE]
  /\ UNCHANGED <<tables, dailyEntry, returned, formData, debounce, clock, bundle, page, inflight>>

\* getOrCreateCycleLog, first await: the latest cycle log of the entry.
GetOrCreateCycleLogFetch(c, fails) ==
  /\ pc[c] = "cycle.fetch"
  /\ queries' = [queries EXCEPT ![c] = Append(@, "cycle_logs.select")]
  /\ LET existing == Latest(ByEntry(cycle_logs, PageEntry.id))
     IN IF fails
        THEN /\ pc' = [pc EXCEPT ![c] = "done"]
             /\ result' = [result EXCEPT ![c] = Thrown("network")]
             /\ UNCHANGED newLog
        ELSE IF existing # {}
        THEN /\ pc' = [pc EXCEPT ![c] = "cycle.upsert"]
             /\ newLog' = [newLog EXCEPT ![c] = CHOOSE r \in existing : TRUE]
             /\ UNCHANGED result
        ELSE /\ pc' = [pc EXCEPT ![c] = "cycle.insert"]
             /\ UNCHANGED <<newLog, result>>
  /\ UNCHANGED <<tables, call, dailyEntry, returned, formData, debounce, clock, bundle, page, inflight>>

\* getOrCreateCycleLog, second await: the insert.
GetOrCreateCycleLogInsert(c, fails) ==
  /\ pc[c] = "cycle.insert"
  /\ queries' = [queries EXCEPT ![c] = Append(@, "cycle_logs.insert")]
  /\ LET row == CycleLogRow(NewId, PageEntry.id, PageEntry.patient_id, NULL, clock)
     IN IF fails
        THEN /\ pc' = [pc EXCEPT ![c] = "done"]
             /\ result' = [result EXCEPT ![c] = Thrown("network")]
             /\ UNCHANGED <<cycle_logs, clock, newLog>>
        ELSE /\ cycle_logs' = cycle_logs \cup {row}
             /\ clock' = clock + 1
             /\ newLog' = [newLog EXCEPT ![c] = row]
             /\ pc' = [pc EXCEPT ![c] = "cycle.upsert"]
             /\ UNCHANGED result
  /\ UNCHANGED <<daily_entries, food_events, bowel_movements, exercise_events,
                 regimen_formulations, regimen_formulation_intakes,
                 regimen_treatments, regimen_treatment_completions, subrecords,
                 call, dailyEntry, returned, formData, debounce, bundle, page, inflight>>

\* upsertCycleLog({ id: newLog.id, ... }), onConflict 'id'.
UpsertCycleLog(c, fails) ==
  /\ pc[c] = "cycle.upsert"
  /\ queries' = [queries EXCEPT ![c] = Append(@, "cycle_logs.upsert")]
  /\ pc' = [pc EXCEPT ![c] = "done"]
  /\ IF fails
     THEN /\ result' = [result EXCEPT ![c] = Thrown("network")]
          /\ UNCHANGED cycle_logs
     ELSE /\ result' = [result EXCEPT ![c] = Ok(NoRow, <<>>)]
          /\ cycle_logs' =
               IF \E r \in cycle_logs : r.id = newLog[c].id
               THEN {IF r.id = newLog[c].id THEN [r EXCEPT !.cycle_day = FormCycleDay] ELSE r :
                       r \in cycle_logs}
               ELSE cycle_logs \cup {[newLog[c] EXCEPT !.cycle_day = FormCycleDay]}
  /\ UNCHANGED <<daily_entries, food_events, bowel_movements, exercise_events,
                 regimen_formulations, regimen_formulation_intakes,
                 regimen_treatments, regimen_treatment_completions, subrecords,
                 call, dailyEntry, returned, formData, debounce, clock, newLog, bundle, page, inflight>>

\* upsert(data, { onConflict: 'id' }) of a record whose id is the one the
\* bundle holds: without an id a row is inserted, with one it is updated.
UpsertById(table, held) ==
  IF held.rows = {} THEN table \cup {SubRecord(NewId, PageEntry.id, clock)} ELSE table

\* A blur saves one section; MaxSaves bounds the number of writes.
SectionSave ==
  /\ bundle # NoBundle
  /\ clock <= MaxSaves
  /\ clock' = clock + 1
  /\ UNCHANGED <<daily_entries, food_events, bowel_movements, exercise_events,
                 cycle_logs, regimen_formulations, regimen_formulation_intakes,
                 regimen_treatments, regimen_treatment_completions,
                 vital_readings, medication_intakes, symptom_logs, cycle_comments,
                 regimen_notes, pc, call, dailyEntry, result, queries, returned, formData, debounce,
                 newLog, bundle, page, inflight>>

\* FoodFluidSection.handleSaveFluids: upsertFluidTotals({ id: fluidTotals?.id, ... }).
SaveFluids ==
  /\ SectionSave
  /\ daily_fluid_totals' = UpsertById(daily_fluid_totals, bundle.fluidTotals)
  /\ UNCHANGED <<sleep_blocks, early_morning_entries>>

\* EarlyMorningSection.handleSave: upsertEarlyMorning({ id: earlyMorning?.id, ... }).
SaveEarlyMorning ==
  /\ SectionSave
  /\ early_morning_entries' = UpsertById(early_morning_entries, bundle.earlyMorning)
  /\ UNCHANGED <<sleep_blocks, daily_fluid_totals>>

\* SleepSection.handleSave: upsertSleepBlock({ id: sleepBlock?.id, ... })
\* with sleepBlock = data.sleepBlocks[0].
SaveSleep ==
  /\ SectionSave
  /\ sleep_blocks' = UpsertById(sleep_blocks, bundle.sleepBlocks)
  /\ UNCHANGED <<early_morning_entries, daily_fluid_totals>>

\* --------------------------------------------------------- EnergySection

EnergyFields ==
  {"energy_physical", "energy_mental", "energy_emotional", "energy_drive", "overall_mood"}

\* No form: the section is not mounted.  touched records the fields whose
\* onChange has run.
NoForm ==
  [energy_physical |-> NULL, energy_mental |-> NULL, energy_emotional |-> NULL,
   energy_drive |-> NULL, overall_mood |-> NULL, reflection |-> "", touched |-> {}]

\* The useState initial value of formData: unset scores show as 5
\* (value ?? 5), an unset reflection as the empty string.
EnergyForm(entry) ==
  LET OrFive(value) == IF value = NULL THEN 5 ELSE value
  IN [energy_physical |-> OrFive(entry.energy_physical),
      energy_mental |-> OrFive(entry.energy_mental),
      energy_emotional |-> OrFive(entry.energy_emotional),
      energy_drive |-> OrFive(entry.energy_drive),
      overall_mood |-> OrFive(entry.overall_mood),
      reflection |-> IF entry.reflection = NullText THEN "" ELSE entry.reflection,
      touched |-> {}]

\* onChange of a slider or of the reflection box; MaxTouched bounds the
\* number of fields the user edits.
EnergyChange(field, value) ==
  /\ formData # NoForm
  /\ value # formData[field]
  /\ Cardinality(formData.touched \cup {field}) <= MaxTouched
  /\ formData' = [formData EXCEPT ![field] = value, !.touched = @ \cup {field}]
  /\ UNCHANGED <<tables, pc, call, dailyEntry, result, queries, returned,
                 clock, bundle, newLog, page, inflight, debounce>>

\* updateDailyEntry(params): the update sets the seven columns to the
\* parameters; a parameter that is undefined is left out of the request
\* body, so its column is not written.  The optional reflection and
\* cycle_day are sets here: empty when undefined, else holding the value.
updateDailyEntry(params) ==
  {IF e.id # params.id THEN e
   ELSE [e EXCEPT !.energy_physical = params.energy_physical,
                  !.energy_mental = params.energy_mental,
                  !.energy_emotional = params.energy_emotional,
                  !.energy_drive = params.energy_drive,
                  !.overall_mood = params.overall_mood,
                  !.reflection = IF params.reflection = {} THEN @
                                 ELSE CHOOSE text \in params.reflection : TRUE,
                  !.cycle_day = IF params.cycle_day = {} THEN @
                                ELSE CHOOSE day \in params.cycle_day : TRUE] :
     e \in daily_entries}

\* EnergySection.handleSave (onMouseUp / onTouchEnd of a slider, onBlur of
\* the reflection box): every score of the form is sent, the reflection
\* only when it is not empty, cycle_day never.
EnergySave ==
  /\ formData # NoForm
  /\ daily_entries' =
       updateDailyEntry([id |-> PageEntry.id,
                         energy_physical |-> formData.energy_physical,
                         energy_mental |-> formData.energy_mental,
                         energy_emotional |-> formData.energy_emotional,
                         energy_drive |-> formData.energy_drive,
                         overall_mood |-> formData.overall_mood,
                         reflection |-> IF formData.reflection = "" THEN {}
                                        ELSE {formData.reflection},
                         cycle_day |-> {}])
  /\ UNCHANGED <<satellites, pc, call, dailyEntry, result, queries, returned, session>>

\* ------------------------------------------------------- tracker pages

\* ClinicianTrackerPage and PatientTrackerPage hold the same state and run
\* the same fetch code.  A fetch in flight is [n, fn, fromDate, toDate]: the
\* n-th call started by the page, with the range its closure captured.
\* page.settled records the fetch that settled last and whether it succeeded.

NoFetch == [n |-> 0, fn |-> "none", fromDate |-> NULL, toDate |-> NULL, ok |-> FALSE]

\* The useState initial values; toDate is today.
NoPage ==
  [fromDate |-> NULL, toDate |-> MaxDate, activeLens |-> "daily",
   summaries |-> <<>>, cycleData |-> <<>>, loading |-> TRUE, error |-> FALSE,
   started |-> 0, settled |-> NoFetch]

\* needsCycleData ? fetchCycleData : fetchSummaries
LensFn(activeLens) ==
  IF activeLens = "daily" THEN "getDailySummaryRange" ELSE "getCycleRange"

\* What the range function of fetch f returns.
RangeResult(f) ==
  LET dailyEntries == OrderByDateDesc(RangeEntries(DEV_PATIENT_ID, f.fromDate, f.toDate))
  IN IF f.fn = "getDailySummaryRange"
     THEN getDailySummaryRange(DEV_PATIENT_ID, dailyEntries)
     ELSE getCycleRange(DEV_PATIENT_ID, dailyEntries)

\* The effect on [fromDate, toDate, needsCycleData] after the page state
\* became next: fetchSummaries or fetchCycleData up to its await.
TrackerEffect(next) ==
  IF next.fromDate # NULL /\ next.toDate # NULL
  THEN /\ next.started < MaxFetches
       /\ page' = [next EXCEPT !.loading = TRUE, !.error = FALSE, !.started = @ + 1]
       /\ inflight' = inflight \cup
                        {[n |-> next.started + 1, fn |-> LensFn(next.activeLens),
                          fromDate |-> next.fromDate, toDate |-> next.toDate]}
  ELSE /\ page' = next
       /\ UNCHANGED inflight

\* onChange of the From input (and the default set once the config loads).
TrackerSetFromDate(d) ==
  /\ d # page.fromDate
  /\ TrackerEffect([page EXCEPT !.fromDate = d])
  /\ UNCHANGED <<tables, pc, call, dailyEntry, result, queries, returned, formData, debounce,
                 clock, bundle, newLog>>

\* onChange of the To input.
TrackerSetToDate(d) ==
  /\ d # page.toDate
  /\ TrackerEffect([page EXCEPT !.toDate = d])
  /\ UNCHANGED <<tables, pc, call, dailyEntry, result, queries, returned, formData, debounce,
                 clock, bundle, newLog>>

\* A lens button that changes needsCycleData.
TrackerSetLens(lens) ==
  /\ lens # page.activeLens
  /\ TrackerEffect([page EXCEPT !.activeLens = lens])
  /\ UNCHANGED <<tables, pc, call, dailyEntry, result, queries, returned, formData, debounce,
                 clock, bundle, newLog>>

\* Variant: a fetch whose range or lens is no longer the selected one is
\* dropped when it settles.
TrackerResolve_DropStale(f, fails) ==
  /\ f \in inflight
  /\ inflight' = inflight \ {f}
  /\ LET settled == [n |-> f.n, fn |-> f.fn, fromDate |-> f.fromDate,
                     toDate |-> f.toDate, ok |-> ~fails]
         current == f.fromDate = page.fromDate /\ f.toDate = page.toDate
                      /\ f.fn = LensFn(page.activeLens)
     IN page' = IF ~current THEN [page EXCEPT !.settled = settled]
                ELSE IF fails
                THEN [page EXCEPT !.error = TRUE, !.loading = FALSE, !.settled = settled]
                ELSE IF f.fn = "getDailySummaryRange"
                THEN [page EXCEPT !.summaries = RangeResult(f), !.loading = FALSE,
                                  !.settled = settled]
                ELSE [page EXCEPT !.cycleData = RangeResult(f), !.loading = FALSE,
                                  !.settled = settled]
  /\ UNCHANGED <<tables, pc, call, dailyEntry, result, queries, returned, formData, debounce,
                 clock, bundle, newLog>>

\* Variant: a failed fetch is started again.
TrackerResolve_Retry(f, fails) ==
  /\ f \in inflight
  /\ LET settled == [n |-> f.n, fn |-> f.fn, fromDate |-> f.fromDate,
                     toDate |-> f.toDate, ok |-> ~fails]
         again == fails /\ page.started < MaxFetches
     IN /\ inflight' = (inflight \ {f}) \cup
                         (IF again THEN {[f EXCEPT !.n = page.started + 1]} ELSE {})
        /\ page' = IF fails
                   THEN [page EXCEPT !.error = TRUE, !.loading = again, !.settled = settled,
                                     !.started = IF again THEN @ + 1 ELSE @]
                   ELSE IF f.fn = "getDailySummaryRange"
                   THEN [page EXCEPT !.summaries = RangeResult(f), !.loading = FALSE,
                                     !.settled = settled]
                   ELSE [page EXCEPT !.cycleData = RangeResult(f), !.loading = FALSE,
                                     !.settled = settled]
  /\ UNCHANGED <<tables, pc, call, dailyEntry, result, queries, returned, formData, debounce,
                 clock, bundle, newLog>>

\* Variant: a failed fetch also clears the data held for its lens.
TrackerResolve_ClearOnError(f, fails) ==
  /\ f \in inflight
  /\ inflight' = inflight \ {f}
  /\ LET settled == [n |-> f.n, fn |-> f.fn, fromDate |-> f.fromDate,
                     toDate |-> f.toDate, ok |-> ~fails]
         data == IF fails THEN <<>> ELSE RangeResult(f)
     IN page' = IF f.fn = "getDailySummaryRange"
                THEN [page EXCEPT !.summaries = data, !.error = @ \/ fails,
                                  !.loading = FALSE, !.settled = settled]
                ELSE [page EXCEPT !.cycleData = data, !.error = @ \/ fails,
                                  !.loading = FALSE, !.settled = settled]
  /\ UNCHANGED <<tables, pc, call, dailyEntry, result, queries, returned, formData, debounce,
                 clock, bundle, newLog>>

\* fetchSummaries / fetchCycleData from the await on: setSummaries(data) or
\* setCycleData(data), or setError, and setLoading(false).
TrackerResolve(f, fails) ==
  /\ f \in inflight
  /\ inflight' = inflight \ {f}
  /\ LET settled == [n |-> f.n, fn |-> f.fn, fromDate |-> f.fromDate,
                     toDate |-> f.toDate, ok |-> ~fails]
     IN page' = IF fails
                THEN [page EXCEPT !.error = TRUE, !.loading = FALSE, !.settled = settled]
                ELSE IF f.fn = "getDailySummaryRange"
                THEN [page EXCEPT !.summaries = RangeResult(f), !.loading = FALSE,
                                  !.settled = settled]
                ELSE [page EXCEPT !.cycleData = RangeResult(f), !.loading = FALSE,
                                  !.settled = settled]
  /\ UNCHANGED <<tables, pc, call, dailyEntry, result, queries, returned, formData, debounce,
                 clock, bundle, newLog>>

\* -------------------------------------------------------------- isEditable
\* Instants are counted in parts of a day since 1970-01-01T00:00Z; tz is the
\* browser's offset from UTC in the same parts.

\* Parts of a day.
DayParts == 4

\* differenceInCalendarDays(left, right) of date-fns: the number of local
\* calendar days between the two instants, each taken at its local start of
\* day.
differenceInCalendarDays(left, right, tz) ==
  LET startOfDay(instant) == (instant + tz) \div DayParts
  IN startOfDay(left) - startOfDay(right)

\* isEditable of PatientDailyEntryPage (readOnly = FALSE) and of
\* DailyEntryOverlay.  new Date(date) of a YYYY-MM-DD string is that day's
\* midnight in UTC; patientConfig is NULL until loaded, else its
\* edit_window_days.
isEditable(readOnly, patientConfig, now, date, tz) ==
  IF ~readOnly /\ patientConfig # NULL
  THEN differenceInCalendarDays(now, date * DayParts, tz) <= patientConfig
  ELSE FALSE

\* A render of the page or overlay whose state is next.
Rendered(next) ==
  [next EXCEPT !.isEditable =
     isEditable(next.readOnly, next.patientConfig, next.now, next.selectedDate, next.tz)]

\* fetchConfig / fetchData resolves: setPatientConfig(config).
ConfigLoaded(window) ==
  /\ page # NoPage
  /\ page.patientConfig = NULL
  /\ page' = Rendered([page EXCEPT !.patientConfig = window])
  /\ UNCHANGED <<tables, pc, call, dailyEntry, result, queries, returned,
                 clock, bundle, newLog, inflight, formData, debounce>>

\* handlePrevDay / handleNextDay / the date input of the page.
SelectDate(date) ==
  /\ page # NoPage
  /\ page.kind = "PatientDailyEntryPage"
  /\ date # page.selectedDate
  /\ page' = Rendered([page EXCEPT !.selectedDate = date])
  /\ UNCHANGED <<tables, pc, call, dailyEntry, result, queries, returned,
                 clock, bundle, newLog, inflight, formData, debounce>>

\* ------------------------------------------------------------- useDebounce
\* debounce is the state of one useDebounce(value, delay, onSave) whose
\* onSave and delay stay the same: the value of the last render,
\* previousValueRef, the pending timer (ticks left, NULL when none) with the
\* value its closure holds, and the calls of onSave so far.  quiet counts the
\* ticks since the value last changed (up to delay), base is
\* previousValueRef at that change, mark the number of calls before it.

NoDebounce ==
  [value |-> "a", previousValue |-> "a", timer |-> NULL, timerValue |-> "a",
   delay |-> 0, mounted |-> FALSE, calls |-> <<>>, quiet |-> 0, changes |-> 0,
   base |-> "a", mark |-> 0]

\* Variant: a render that finds a timer pending leaves it running.
DebounceChange_KeepTimer(value) ==
  /\ debounce.mounted
  /\ value # debounce.value
  /\ debounce.changes < MaxChanges
  /\ debounce' =
       [debounce EXCEPT
          !.value = value,
          !.timer = IF debounce.timer # NULL THEN @
                    ELSE IF value # debounce.previousValue THEN debounce.delay ELSE NULL,
          !.timerValue = IF debounce.timer # NULL THEN @ ELSE value,
          !.quiet = 0, !.changes = @ + 1,
          !.base = debounce.previousValue, !.mark = Len(debounce.calls)]
  /\ UNCHANGED <<tables, pc, call, dailyEntry, result, queries, returned,
                 clock, bundle, newLog, page, inflight, formData>>

\* A render with a new value: the cleanup of the last effect clears the
\* timer, the effect sets one if the value differs from previousValueRef.
DebounceChange(value) ==
  /\ debounce.mounted
  /\ value # debounce.value
  /\ debounce.changes < MaxChanges
  /\ debounce' =
       [debounce EXCEPT
          !.value = value,
          !.timer = IF value # debounce.previousValue THEN debounce.delay ELSE NULL,
          !.timerValue = value,
          !.quiet = 0, !.changes = @ + 1,
          !.base = debounce.previousValue, !.mark = Len(debounce.calls)]
  /\ UNCHANGED <<tables, pc, call, dailyEntry, result, queries, returned,
                 clock, bundle, newLog, page, inflight, formData>>

\* One tick of time passes.
DebounceTick ==
  /\ debounce.timer > 0 \/ debounce.quiet < debounce.delay
  /\ debounce' =
       [debounce EXCEPT
          !.timer = IF @ > 0 THEN @ - 1 ELSE @,
          !.quiet = IF @ < debounce.delay THEN @ + 1 ELSE @]
  /\ UNCHANGED <<tables, pc, call, dailyEntry, result, queries, returned,
                 clock, bundle, newLog, page, inflight, formData>>

\* The timer's callback: onSave(value); previousValueRef.current = value.
\* A call is recorded with the value passed, the value then rendered, the
\* ticks since the last change and previousValueRef before the call.
DebounceFire ==
  /\ debounce.timer = 0
  /\ debounce' =
       [debounce EXCEPT
          !.calls = Append(@, [value |-> debounce.timerValue, current |-> debounce.value,
                               quiet |-> debounce.quiet,
                               previous |-> debounce.previousValue,
                               mounted |-> debounce.mounted]),
          !.previousValue = debounce.timerValue,
          !.timer = NULL]
  /\ UNCHANGED <<tables, pc, call, dailyEntry, result, queries, returned,
                 clock, bundle, newLog, page, inflight, formData>>

\* Unmount: the effect's cleanup clears a pending timer.
DebounceUnmount ==
  /\ debounce.mounted
  /\ debounce' = [debounce EXCEPT !.mounted = FALSE, !.timer = NULL]
  /\ UNCHANGED <<tables, pc, call, dailyEntry, result, queries, returned,
                 clock, bundle, newLog, page, inflight, formData>>

\* ------------------------------------------------------------------- Init

\* The id of a seeded daily entry of patient p dated d.
EntryId(p, d) == (IF p = "p1" THEN 0 ELSE 100) + 10 * d

\* A seeded daily entry: the first day's scores are unset, the later days'
\* are five different values.
Entry(p, d) ==
  IF d = 1
  THEN DailyEntryRow(EntryId(p, d), p, d, NULL, NULL, NULL, NULL, NULL, NULL, NULL)
  ELSE DailyEntryRow(EntryId(p, d), p, d, d, d + 1, d + 2, d + 3, d + 4, NULL, d)

SeedEntry == Entry("p1", 1)

InitClients ==
  /\ pc = [c \in Clients |-> "idle"]
  /\ call = [c \in Clients |-> NoCall]
  /\ dailyEntry = [c \in Clients |-> NoRow]
  /\ result = [c \in Clients |-> NoResult]
  /\ queries = [c \in Clients |-> <<>>]
  /\ returned = {}

InitCalls ==
  /\ InitClients
  /\ clock = 1
  /\ bundle = NoBundle
  /\ newLog = [c \in Clients |-> NoRow]
  /\ page = NoPage
  /\ inflight = {}
  /\ formData = NoForm
  /\ debounce = NoDebounce

NoSubRecords ==
  /\ sleep_blocks = {}
  /\ early_morning_entries = {}
  /\ daily_fluid_totals = {}
  /\ vital_readings = {}
  /\ medication_intakes = {}
  /\ symptom_logs = {}
  /\ cycle_comments = {}
  /\ regimen_notes = {}

NoEvents ==
  /\ food_events = {}
  /\ bowel_movements = {}
  /\ exercise_events = {}
  /\ cycle_logs = {}
  /\ NoSubRecords

NoRegimen ==
  /\ regimen_formulations = {}
  /\ regimen_formulation_intakes = {}
  /\ regimen_treatments = {}
  /\ regimen_treatment_completions = {}

\* The anchor resolver and the daily-entry pages: the day's entry of the
\* development patient exists or not.
Init ==
  /\ daily_entries \in {{}, {SeedEntry}}
  /\ NoEvents
  /\ NoRegimen
  /\ InitCalls

Next ==
  \/ \E c \in Clients, d \in AnchorDates : PatientFetchBundle(c, d)
  \/ \E c \in Clients, p \in Patients, d \in AnchorDates : ClinicianFetchData(c, p, d)
  \/ \E c \in Clients, fails \in BOOLEAN : GetOrCreateFetch(c, fails)
  \/ \E c \in Clients, fails \in BOOLEAN : GetOrCreateInsert(c, fails)
  \/ \E c \in Clients, failAt \in {0, 1} : BundleBatch(c, failAt)

Spec == Init /\ [][Next]_vars

\* ------------------------------------------------------------ SpecBundle
\* getDailyEntryBundle, called by the clinician page for every patient and
\* day, over days with and without sub-records, with every failing query.

\* The daily entries that have sub-records: patient p1's last day and
\* patient p2's first day.
FullDays == {EntryId("p1", MaxAnchorDate), EntryId("p2", 1)}

OwnerOf(entryId) == IF entryId >= 100 THEN "p2" ELSE "p1"

\* n rows for every full day.
Filled(n) == {SubRecord(e + k, e, k) : e \in FullDays, k \in 1..n}

InitBundle ==
  /\ \E existing \in BOOLEAN :
       daily_entries = {Entry(p, d) : p \in Patients, d \in AnchorDates}
                         \ (IF existing THEN {} ELSE {Entry("p1", 1)})
  /\ sleep_blocks = Filled(2)
  /\ early_morning_entries = Filled(2)
  /\ daily_fluid_totals = Filled(1)
  /\ vital_readings = Filled(2)
  /\ medication_intakes = Filled(2)
  /\ symptom_logs = Filled(2)
  /\ regimen_notes = Filled(1)
  /\ food_events = {FoodRow(e + k, e) : e \in FullDays, k \in 1..2}
  /\ bowel_movements = {BowelRow(e + k, e) : e \in FullDays, k \in 1..2}
  /\ exercise_events = {ExerciseRow(e + k, e, 30) : e \in FullDays, k \in 1..2}
  /\ regimen_formulations = {FormulationRow(1, "p1", 1, NULL), FormulationRow(3, "p2", 1, NULL)}
  /\ regimen_treatments = {TreatmentRow(1, "p1", 1, NULL), TreatmentRow(3, "p2", 1, NULL)}
  /\ regimen_formulation_intakes =
       {IntakeRow(e + 1, e, IF OwnerOf(e) = "p1" THEN 1 ELSE 3, "taken") : e \in FullDays}
  /\ regimen_treatment_completions =
       {CompletionRow(e + 1, e, IF OwnerOf(e) = "p1" THEN 1 ELSE 3, "completed") : e \in FullDays}
  /\ \E logs \in 0..2, comments \in 0..2 :
       /\ logs = 0 => comments = 0
       /\ cycle_logs = {CycleLogRow(e + k, e, OwnerOf(e), NULL, k) : e \in FullDays, k \in 1..logs}
       /\ cycle_comments = {CommentRow(e + k, e + 1) : e \in FullDays, k \in 1..comments}
  /\ InitCalls

NextBundle ==
  \/ \E p \in Patients, d \in AnchorDates : ClinicianFetchData(ClinicianClient, p, d)
  \/ \E fails \in BOOLEAN : GetOrCreateFetch(ClinicianClient, fails)
  \/ \E fails \in BOOLEAN : GetOrCreateInsert(ClinicianClient, fails)
  \/ \E failAt \in 0..Len(BatchQueries) : BundleBatch(ClinicianClient, failAt)
  \/ \E fails \in BOOLEAN : BundleComments(ClinicianClient, fails)

SpecBundle == InitBundle /\ [][NextBundle]_vars

\* ------------------------------------------------------------- SpecSaves
\* The patient's page showing a day that has all or none of the singular
\* records and of the cycle log; a second patient has them all.

OwnRecords(n) == {SubRecord(PageEntry.id + k, PageEntry.id, 0) : k \in 1..n}

OtherRecords == {SubRecord(111, EntryId("p2", 1), 0)}

InitSaves ==
  /\ daily_entries = {PageEntry, Entry("p2", 1)}
  /\ food_events = {}
  /\ bowel_movements = {}
  /\ exercise_events = {}
  /\ NoRegimen
  /\ vital_readings = {}
  /\ medication_intakes = {}
  /\ symptom_logs = {}
  /\ cycle_comments = {}
  /\ regimen_notes = {}
  /\ \E n \in 0..1 :
       /\ sleep_blocks = OwnRecords(n) \cup OtherRecords
       /\ early_morning_entries = OwnRecords(n) \cup OtherRecords
       /\ daily_fluid_totals = OwnRecords(n) \cup OtherRecords
  /\ \E n \in 0..1 :
       cycle_logs = {CycleLogRow(PageEntry.id + k, PageEntry.id, PageEntry.patient_id, NULL, 0) :
                       k \in 1..n}
                    \cup {CycleLogRow(111, EntryId("p2", 1), "p2", NULL, 0)}
  /\ InitClients
  /\ clock = 1
  /\ bundle = Bundle(BatchResponses(PageEntry.id, PageEntry.patient_id, 0), List({}))
  /\ newLog = [c \in Clients |-> NoRow]
  /\ page = NoPage
  /\ inflight = {}
  /\ formData = NoForm
  /\ debounce = NoDebounce

NextSaves ==
  \/ \E c \in Clients : CycleHandleSave(c)
  \/ \E c \in Clients, fails \in BOOLEAN : GetOrCreateCycleLogFetch(c, fails)
  \/ \E c \in Clients, fails \in BOOLEAN : GetOrCreateCycleLogInsert(c, fails)
  \/ \E c \in Clients, fails \in BOOLEAN : UpsertCycleLog(c, fails)
  \/ SaveFluids
  \/ SaveEarlyMorning
  \/ SaveSleep
  \/ PageRefresh

SpecSaves == InitSaves /\ [][NextSaves]_vars

\* ------------------------------------------------------------- SpecRange
\* The range functions over every set of daily entries of patient p1, next
\* to a patient p2 with no entry or one every day, called with every range
\* and every failing query.

InitRange ==
  /\ \E days1 \in SUBSET Dates, days2 \in {{}, Dates} :
       daily_entries = {Entry("p1", d) : d \in days1} \cup {Entry("p2", d) : d \in days2}
  /\ NoEvents
  /\ NoRegimen
  /\ InitCalls

NextRange ==
  \E fn \in {"getDailySummaryRange", "getCycleRange"}, p \in Patients,
     fromDate \in Dates, toDate \in Dates, failAt \in 0..9 :
       RangeFetch(ClinicianClient, fn, p, fromDate, toDate, failAt)

SpecRange == InitRange /\ [][NextRange]_vars

\* --------------------------------------------------------- SpecAdherence
\* The range functions over regimen catalogs and adherence rows, called
\* with the whole range.

FormulationStatuses == <<"taken", "skipped", "partial", NullText>>
TreatmentStatuses == <<"completed", "skipped", "partial", NullText>>

MaybeDates == {NULL} \cup Dates

\* Every patient has an entry on every day; patient p2 has a regimen item of
\* its own (id 3), marked done on its first day.
AllEntries == {Entry(p, d) : p \in Patients, d \in Dates}

\* Up to MaxIntakes adherence rows of patient p1's first two days, for the
\* regimen items ids, each row one of four statuses: rows[i] is the i-th
\* row's <<day, item, status index>>.
AdherenceRows == (1..2) \X (1..2) \X (1..4)

RowLists(ids) ==
  UNION {{rows \in [1..n -> AdherenceRows] :
            /\ \A i \in 1..n : rows[i][2] \in ids
            /\ \A i \in 1..(n - 1) :
                 \/ rows[i][1] < rows[i + 1][1]
                 \/ rows[i][1] = rows[i + 1][1] /\ rows[i][2] < rows[i + 1][2]
                 \/ /\ rows[i][1] = rows[i + 1][1] /\ rows[i][2] = rows[i + 1][2]
                    /\ rows[i][3] <= rows[i + 1][3]} : n \in 0..MaxIntakes}

\* One formulation with any validity interval, maybe a second one that is
\* always active, and adherence rows for them; no treatments of patient p1.
InitFormulations ==
  /\ daily_entries = AllEntries
  /\ NoEvents
  /\ \E start \in MaybeDates, stop \in MaybeDates, second \in BOOLEAN :
       /\ regimen_formulations =
            {FormulationRow(1, "p1", start, stop), FormulationRow(3, "p2", NULL, NULL)}
            \cup (IF second THEN {FormulationRow(2, "p1", 1, NULL)} ELSE {})
       /\ \E rows \in RowLists(IF second THEN {1, 2} ELSE {1}) :
            regimen_formulation_intakes =
              {IntakeRow(i, EntryId("p1", rows[i][1]), rows[i][2],
                         FormulationStatuses[rows[i][3]]) : i \in DOMAIN rows}
              \cup {IntakeRow(100, EntryId("p2", 1), 3, "taken")}
  /\ regimen_treatments = {TreatmentRow(3, "p2", NULL, NULL)}
  /\ regimen_treatment_completions = {CompletionRow(100, EntryId("p2", 1), 3, "completed")}
  /\ InitCalls

\* The same for treatments.
InitTreatments ==
  /\ daily_entries = AllEntries
  /\ NoEvents
  /\ \E start \in MaybeDates, stop \in MaybeDates, second \in BOOLEAN :
       /\ regimen_treatments =
            {TreatmentRow(1, "p1", start, stop), TreatmentRow(3, "p2", NULL, NULL)}
            \cup (IF second THEN {TreatmentRow(2, "p1", 1, NULL)} ELSE {})
       /\ \E rows \in RowLists(IF second THEN {1, 2} ELSE {1}) :
            regimen_treatment_completions =
              {CompletionRow(i, EntryId("p1", rows[i][1]), rows[i][2],
                             TreatmentStatuses[rows[i][3]]) : i \in DOMAIN rows}
              \cup {CompletionRow(100, EntryId("p2", 1), 3, "completed")}
  /\ regimen_formulations = {FormulationRow(3, "p2", NULL, NULL)}
  /\ regimen_formulation_intakes = {IntakeRow(100, EntryId("p2", 1), 3, "taken")}
  /\ InitCalls

\* A long catalog: n formulations and n treatments, all active, of which the
\* first k are marked taken / completed on patient p1's first day.
InitCatalog ==
  /\ daily_entries = AllEntries
  /\ NoEvents
  /\ \E n \in 1..MaxCount : \E k \in 0..n :
       /\ regimen_formulations = {FormulationRow(i, "p1", 1, NULL) : i \in 1..n}
       /\ regimen_formulation_intakes =
            {IntakeRow(i, EntryId("p1", 1), i, "taken") : i \in 1..k}
       /\ regimen_treatments = {TreatmentRow(i, "p1", 1, NULL) : i \in 1..n}
       /\ regimen_treatment_completions =
            {CompletionRow(i, EntryId("p1", 1), i, "completed") : i \in 1..k}
  /\ InitCalls

InitAdherence == InitFormulations \/ InitTreatments \/ InitCatalog

NextAdherence ==
  \E fn \in {"getDailySummaryRange", "getCycleRange"}, p \in Patients :
    RangeFetch(ClinicianClient, fn, p, 1, MaxDate, 0)

SpecAdherence == InitAdherence /\ [][NextAdherence]_vars

\* ------------------------------------------------------------ SpecEvents
\* getDailySummaryRange over food, bowel, exercise and cycle-log rows.

\* duration_minutes of the generated exercise events: unset, 30 or 45.
Minutes == <<NULL, 30, 45>>

\* Lists of up to MaxEvents pairs <<a, b>>, a in 1..m and b in 1..n, in
\* lexicographic order: one list per multiset of pairs.
PairLists(m, n) ==
  UNION {{rows \in [1..k -> (1..m) \X (1..n)] :
            \A i \in 1..(k - 1) :
              \/ rows[i][1] < rows[i + 1][1]
              \/ rows[i][1] = rows[i + 1][1] /\ rows[i][2] <= rows[i + 1][2]} :
         k \in 0..MaxEvents}

\* Rows every initial state has: patient p2 has one row of each kind on its
\* first day, patient p1 one of each kind on the last day.
FixedFood == {FoodRow(100, EntryId("p2", 1)), FoodRow(101, EntryId("p1", MaxDate))}

FixedBowel == {BowelRow(100, EntryId("p2", 1)), BowelRow(101, EntryId("p1", MaxDate))}

FixedExercise ==
  {ExerciseRow(100, EntryId("p2", 1), 60), ExerciseRow(101, EntryId("p1", MaxDate), 60)}

FixedCycleLogs ==
  {CycleLogRow(100, EntryId("p2", 1), "p2", NULL, 1),
   CycleLogRow(101, EntryId("p1", MaxDate), "p1", NULL, 1)}

\* Up to MaxEvents exercise events of patient p1, each on any day with any
\* of the durations.
InitExercise ==
  /\ daily_entries = AllEntries
  /\ food_events = FixedFood
  /\ bowel_movements = FixedBowel
  /\ cycle_logs = FixedCycleLogs
  /\ NoSubRecords
  /\ \E rows \in PairLists(MaxDate, Len(Minutes)) :
       exercise_events = FixedExercise \cup
         {ExerciseRow(i, EntryId("p1", rows[i][1]), Minutes[rows[i][2]]) : i \in DOMAIN rows}
  /\ NoRegimen
  /\ InitCalls

\* Up to MaxEvents rows of patient p1, each a food event (kind 1), a bowel
\* movement (kind 2) or a cycle log (kind 3) on any day.
InitCounts ==
  /\ daily_entries = AllEntries
  /\ exercise_events = FixedExercise
  /\ NoSubRecords
  /\ \E rows \in PairLists(MaxDate, 3) :
       /\ food_events = FixedFood \cup
            {FoodRow(i, EntryId("p1", rows[i][1])) : i \in {j \in DOMAIN rows : rows[j][2] = 1}}
       /\ bowel_movements = FixedBowel \cup
            {BowelRow(i, EntryId("p1", rows[i][1])) : i \in {j \in DOMAIN rows : rows[j][2] = 2}}
       /\ cycle_logs = FixedCycleLogs \cup
            {CycleLogRow(i, EntryId("p1", rows[i][1]), "p1", NULL, 1) :
               i \in {j \in DOMAIN rows : rows[j][2] = 3}}
  /\ NoRegimen
  /\ InitCalls

InitEvents == InitExercise \/ InitCounts

NextEvents ==
  \E p \in Patients, fromDate \in Dates, toDate \in Dates :
    /\ fromDate <= toDate
    /\ RangeFetch(ClinicianClient, "getDailySummaryRange", p, fromDate, toDate, 0)

SpecEvents == InitEvents /\ [][NextEvents]_vars

\* ================================================================ claims

Done(c, fn) == pc[c] = "done" /\ call[c].fn = fn

Succeeded(c, fn) == Done(c, fn) /\ result[c].status = "ok"

\* The rows of daily_entries with the key (p, d).
EntriesFor(p, d) == {r \in daily_entries : r.patient_id = p /\ r.date = d}

\* C1: every value getOrCreateDailyEntry returned for a (patientId, date) is
\* a row of that patient and date, any two values returned for the same
\* (patientId, date) have the same id (so two calls in sequence return the
\* same id), and exactly one daily_entries row has that key afterwards.  A
\* call that finds the row changes no row and returns the stored row; a call
\* that inserts adds one row whose optional columns are all unset.
C1_SameRow ==
  /\ \A x \in returned :
       /\ x.row.patient_id = x.patientId
       /\ x.row.date = x.date
       /\ Cardinality(EntriesFor(x.patientId, x.date)) = 1
  /\ \A x \in returned : \A y \in returned :
       x.patientId = y.patientId /\ x.date = y.date => x.row.id = y.row.id

C1_Step ==
  \A c \in Clients :
    pc'[c] = "batch" /\ pc[c] # "batch" =>
      IF pc[c] = "fetch"
      THEN daily_entries' = daily_entries /\ dailyEntry'[c] \in daily_entries
      ELSE /\ dailyEntry'[c] \notin daily_entries
           /\ daily_entries' = daily_entries \cup {dailyEntry'[c]}
           /\ dailyEntry'[c].energy_physical = NULL
           /\ dailyEntry'[c].energy_mental = NULL
           /\ dailyEntry'[c].energy_emotional = NULL
           /\ dailyEntry'[c].energy_drive = NULL
           /\ dailyEntry'[c].overall_mood = NULL
           /\ dailyEntry'[c].reflection = NULL
           /\ dailyEntry'[c].cycle_day = NULL

C1_Idempotent == [](C1_SameRow) /\ [][C1_Step]_vars

\* Both sessions completed a call for the same day of the same patient, one
\* after the other inserted the row, and both hold that row.
C1_Witness ==
  /\ \A c \in Clients : Succeeded(c, "getDailyEntryBundle")
  /\ call[PatientClient].patientId = call[ClinicianClient].patientId
  /\ call[PatientClient].date = call[ClinicianClient].date
  /\ result[PatientClient].entry = result[ClinicianClient].entry
  /\ result[PatientClient].entry # SeedEntry
  /\ Len(queries[PatientClient]) # Len(queries[ClinicianClient])

\* C2: in every reachable state, under every interleaving of the calls of
\* the two sessions, no two daily_entries rows have the same
\* (patient_id, date).
C2_Unique ==
  \A r1 \in daily_entries : \A r2 \in daily_entries :
    r1.patient_id = r2.patient_id /\ r1.date = r2.date => r1 = r2

\* An insert of a second row for a key was attempted and rejected.
C2_Witness ==
  \E c \in Clients : pc[c] = "done" /\ result[c].error = "23505"

Inserting(c) ==
  \E i \in DOMAIN queries[c] : queries[c][i] = "daily_entries.insert"

\* C3: when both sessions' calls for the same (patientId, date) found no row
\* and both went on to insert, with no query failing for another reason,
\* both calls return the same row and neither ends in an error.
C3_RaceReturnsSameRow ==
  ( /\ call[PatientClient].patientId = call[ClinicianClient].patientId
    /\ call[PatientClient].date = call[ClinicianClient].date
    /\ \A c \in Clients : Inserting(c) /\ result[c].error # "network" )
  => /\ \A c \in Clients : result[c].status # "error"
     /\ dailyEntry[PatientClient] = dailyEntry[ClinicianClient]

\* C4: no step of the clinician's session changes any table.
C4_ClinicianReadOnly ==
  [][pc'[ClinicianClient] # pc[ClinicianClient] => tables' = tables]_vars

\* -------------------------------------------------- adherence, as specified

\* The nearest integer to num / den, a half going up (den > 0, num >= 0).
RoundHalfUp(num, den) == (2 * num + den) \div (2 * den)

\* The validity interval of a regimen item contains day: it starts on or
\* before day, or has no start date, and stops on or after day, or never.
ActiveOn(item, day) ==
  /\ item.start_date = NULL \/ item.start_date <= day
  /\ item.stop_date = NULL \/ item.stop_date >= day

\* The interval rule as the data model states it, which needs a start date.
ActiveOnStated(item, day) ==
  /\ item.start_date # NULL /\ item.start_date <= day
  /\ item.stop_date = NULL \/ item.stop_date >= day

\* The daily entry of patient p dated day.
EntryOn(p, day) == CHOOSE e \in daily_entries : e.patient_id = p /\ e.date = day

ActiveCountF(p, day) ==
  Cardinality({f \in regimen_formulations : f.patient_id = p /\ ActiveOn(f, day)})

TakenCountF(p, day) ==
  Cardinality({i \in regimen_formulation_intakes :
     /\ i.daily_entry_id = EntryOn(p, day).id
     /\ \E f \in regimen_formulations :
          f.id = i.regimen_formulation_id /\ f.patient_id = p /\ ActiveOn(f, day)
     /\ i.status \in {"taken", "partial"}})

ActiveCountT(p, day) ==
  Cardinality({t \in regimen_treatments : t.patient_id = p /\ ActiveOn(t, day)})

DoneCountT(p, day) ==
  Cardinality({k \in regimen_treatment_completions :
     /\ k.daily_entry_id = EntryOn(p, day).id
     /\ \E t \in regimen_treatments :
          t.id = k.regimen_treatment_id /\ t.patient_id = p /\ ActiveOn(t, day)
     /\ k.status \in {"completed", "partial"}})

\* The summaries a successful call of fn by the tracker session returned.
Summaries(fn) ==
  IF Succeeded(ClinicianClient, fn)
  THEN {result[ClinicianClient].rows[i] : i \in DOMAIN result[ClinicianClient].rows}
  ELSE {}

Patient == call[ClinicianClient].patientId

\* C5: every summary getDailySummaryRange returns for a day with at least
\* one active formulation has formulation_adherence_percent =
\* round(100 * takenCount / activeCount), counting only that entry's intake
\* rows of active formulations with status taken or partial; and the same
\* for treatments with statuses completed or partial.
C5_AdherenceFormula ==
  \A s \in Summaries("getDailySummaryRange") :
    /\ ActiveCountF(Patient, s.date) > 0 =>
         s.formulation_adherence_percent =
           RoundHalfUp(100 * TakenCountF(Patient, s.date), ActiveCountF(Patient, s.date))
    /\ ActiveCountT(Patient, s.date) > 0 =>
         s.treatment_adherence_percent =
           RoundHalfUp(100 * DoneCountT(Patient, s.date), ActiveCountT(Patient, s.date))

\* The formulations / treatments of the patient the tracker session asked for.
PatientFormulations == {f \in regimen_formulations : f.patient_id = Patient}

PatientTreatments == {t \in regimen_treatments : t.patient_id = Patient}

\* The day's entry has exactly one intake row, and it marks the item taken.
TakenOn(item, day) ==
  \E i \in regimen_formulation_intakes :
    /\ i.daily_entry_id = EntryOn(Patient, day).id
    /\ i.regimen_formulation_id = item.id
    /\ i.status = "taken"
    /\ \A j \in regimen_formulation_intakes :
         j.daily_entry_id = i.daily_entry_id => j = i

\* The day's entry has exactly one completion row, marking the item completed.
CompletedOn(item, day) ==
  \E k \in regimen_treatment_completions :
    /\ k.daily_entry_id = EntryOn(Patient, day).id
    /\ k.regimen_treatment_id = item.id
    /\ k.status = "completed"
    /\ \A j \in regimen_treatment_completions :
         j.daily_entry_id = k.daily_entry_id => j = k

C7_ZeroActive ==
  \A fn \in {"getDailySummaryRange", "getCycleRange"} : \A s \in Summaries(fn) :
    /\ ActiveCountF(Patient, s.date) = 0 => s.formulation_adherence_percent = 0
    /\ ActiveCountT(Patient, s.date) = 0 => s.treatment_adherence_percent = 0

\* getCycleRange returned a summary for a day with no active formulation on
\* which the patient's formulation, not active that day, is marked taken.
C7_Witness ==
  \E s \in Summaries("getCycleRange") : \E f \in PatientFormulations :
    /\ ActiveCountF(Patient, s.date) = 0
    /\ TakenOn(f, s.date)
    /\ s.formulation_adherence_percent = 0

\* C8: formulation_adherence_percent is the integer nearest to
\* 100 * takenCount / activeCount, an exact half rounding up:
\* percent - 1/2 <= 100 * takenCount / activeCount < percent + 1/2.
C8_RoundHalfAwayFromZero ==
  \A s \in Summaries("getDailySummaryRange") :
    LET active == ActiveCountF(Patient, s.date)
        taken == TakenCountF(Patient, s.date)
        percent == s.formulation_adherence_percent
    IN active > 0 =>
         /\ (2 * percent - 1) * active <= 200 * taken
         /\ 200 * taken < (2 * percent + 1) * active

\* ------------------------------------------------------ ranges, as specified

InRange(e) ==
  /\ e.patient_id = Patient
  /\ call[ClinicianClient].fromDate <= e.date
  /\ e.date <= call[ClinicianClient].toDate

Rows == result[ClinicianClient].rows

\* C9: a successful getDailySummaryRange(patientId, fromDate, toDate) returns
\* exactly one summary for each daily entry of the patient dated within
\* [fromDate, toDate], both ends included, and no other; the summaries are in
\* strictly descending date order; each has the energy and mood values of
\* its entry.
C9_RangeSummaries ==
  Succeeded(ClinicianClient, "getDailySummaryRange") =>
    /\ \A e \in daily_entries :
         InRange(e) => Cardinality({i \in DOMAIN Rows : Rows[i].date = e.date}) = 1
    /\ \A i \in DOMAIN Rows : \E e \in daily_entries :
         /\ InRange(e)
         /\ e.date = Rows[i].date
         /\ Rows[i].energy_physical = e.energy_physical
         /\ Rows[i].energy_mental = e.energy_mental
         /\ Rows[i].energy_emotional = e.energy_emotional
         /\ Rows[i].energy_drive = e.energy_drive
         /\ Rows[i].overall_mood = e.overall_mood
    /\ \A i \in DOMAIN Rows : \A j \in DOMAIN Rows : i < j => Rows[i].date > Rows[j].date

\* Two summaries were returned, for the first and the last day of the range,
\* while the patient has an entry outside the range and the other patient
\* has entries inside it.
C9_Witness ==
  /\ Succeeded(ClinicianClient, "getDailySummaryRange")
  /\ Len(Rows) = 2
  /\ Rows[1].date = call[ClinicianClient].toDate
  /\ Rows[2].date = call[ClinicianClient].fromDate
  /\ \E e \in daily_entries : e.patient_id = Patient /\ ~InRange(e)
  /\ \E e \in daily_entries :
       e.patient_id # Patient /\ e.date = call[ClinicianClient].fromDate

\* C10: a call of getDailySummaryRange or getCycleRange for a range in which
\* the patient has no daily entry issues the daily_entries range query and
\* no other query, and when that query succeeds it returns the empty sequence.
C10_EmptyShortCircuit ==
  \A fn \in {"getDailySummaryRange", "getCycleRange"} :
    Done(ClinicianClient, fn) /\ ~(\E e \in daily_entries : InRange(e)) =>
      /\ queries[ClinicianClient] = <<"daily_entries">>
      /\ result[ClinicianClient].status = "ok" => Rows = <<>>

\* getCycleRange returned the empty sequence for a non-empty range of days
\* in which the patient has no entry, while it has one outside the range.
C10_Witness ==
  /\ Succeeded(ClinicianClient, "getCycleRange")
  /\ call[ClinicianClient].fromDate <= call[ClinicianClient].toDate
  /\ ~(\E e \in daily_entries : InRange(e))
  /\ \E e \in daily_entries : e.patient_id = Patient
  /\ Rows = <<>>

\* -------------------------------------------------- counts, as specified

ExerciseOn(day) ==
  {e \in exercise_events : e.daily_entry_id = EntryOn(Patient, day).id}

\* The minutes of a day's events, grouped by duration: the model's durations
\* are unset, 30, 45 and 60.
MinutesOn(day) ==
  (30 * Cardinality({e \in ExerciseOn(day) : e.duration_minutes = 30}))
  + (45 * Cardinality({e \in ExerciseOn(day) : e.duration_minutes = 45}))
  + (60 * Cardinality({e \in ExerciseOn(day) : e.duration_minutes = 60}))

\* C11: every DailySummary's exercise_minutes is the sum of duration_minutes
\* over the exercise events of that entry, an unset duration counting 0;
\* events of other entries contribute nothing.
C11_ExerciseMinutes ==
  \A s \in Summaries("getDailySummaryRange") : s.exercise_minutes = MinutesOn(s.date)

\* A day with three events of 30, 45 and unset minutes is summarised as 75,
\* in a range that also holds a day with a 60-minute event.
C11_Witness ==
  \E s \in Summaries("getDailySummaryRange") :
    /\ Cardinality(ExerciseOn(s.date)) = 3
    /\ {e.duration_minutes : e \in ExerciseOn(s.date)} = {30, 45, NULL}
    /\ s.exercise_minutes = 75
    /\ \E o \in Summaries("getDailySummaryRange") :
         o.date # s.date /\ o.exercise_minutes = 60

RECURSIVE SumFoodCount(_, _)
SumFoodCount(rows, n) ==
  IF n = 0 THEN 0 ELSE rows[n].food_count + SumFoodCount(rows, n - 1)

\* C12: every DailySummary's food_count is the number of food events of its
\* entry, bowel_movement_count the number of bowel movements of its entry,
\* and has_cycle_log is true iff a cycle log row of its entry exists; the
\* food counts of a result sum to the number of food events attached to the
\* patient's entries in the range.
C12_Counts ==
  /\ \A s \in Summaries("getDailySummaryRange") :
       LET id == EntryOn(Patient, s.date).id
       IN /\ s.food_count = Cardinality({f \in food_events : f.daily_entry_id = id})
          /\ s.bowel_movement_count =
               Cardinality({b \in bowel_movements : b.daily_entry_id = id})
          /\ s.has_cycle_log <=> \E c \in cycle_logs : c.daily_entry_id = id
  /\ Succeeded(ClinicianClient, "getDailySummaryRange") =>
       SumFoodCount(Rows, Len(Rows)) =
         Cardinality({f \in food_events :
            \E e \in daily_entries : InRange(e) /\ f.daily_entry_id = e.id})

\* One returned day has two food events, one bowel movement and no cycle
\* log; another has a cycle log; food events exist outside the range.
C12_Witness ==
  /\ \E s \in Summaries("getDailySummaryRange") :
       /\ s.food_count = 2 /\ s.bowel_movement_count = 1 /\ ~s.has_cycle_log
       /\ \E o \in Summaries("getDailySummaryRange") : o.has_cycle_log /\ o.food_count = 1
  /\ \E f \in food_events : \A i \in DOMAIN Rows :
       f.daily_entry_id # EntryOn(Patient, Rows[i].date).id

\* ------------------------------------------------ the two range functions

\* What the other range function returns for the call the tracker session made.
OtherRange ==
  LET dailyEntries ==
        OrderByDateDesc(RangeEntries(Patient, call[ClinicianClient].fromDate,
                                     call[ClinicianClient].toDate))
  IN IF call[ClinicianClient].fn = "getCycleRange"
     THEN getDailySummaryRange(Patient, dailyEntries)
     ELSE getCycleRange(Patient, dailyEntries)

\* C15: for the same database contents, patient and range, getCycleRange and
\* getDailySummaryRange return sequences over the same dates in the same
\* order, with equal formulation and treatment adherence percentages on
\* every date.
C15_SameAdherence ==
  \A fn \in {"getDailySummaryRange", "getCycleRange"} :
    Succeeded(ClinicianClient, fn) =>
      /\ Len(Rows) = Len(OtherRange)
      /\ \A i \in DOMAIN Rows :
           /\ Rows[i].date = OtherRange[i].date
           /\ Rows[i].formulation_adherence_percent
                = OtherRange[i].formulation_adherence_percent
           /\ Rows[i].treatment_adherence_percent
                = OtherRange[i].treatment_adherence_percent

\* getCycleRange returned every day of the range, one of them with a
\* percentage strictly between 0 and 100 earned by a partial intake.
C15_Witness ==
  /\ Succeeded(ClinicianClient, "getCycleRange")
  /\ Len(Rows) = MaxDate
  /\ \E i \in DOMAIN Rows :
       /\ Rows[i].formulation_adherence_percent = 50
       /\ \E k \in regimen_formulation_intakes :
            /\ k.daily_entry_id = EntryOn(Patient, Rows[i].date).id
            /\ k.status = "partial"

\* ---------------------------------------------------- bundle, as specified

BundleDone == Done(ClinicianClient, "getDailyEntryBundle")

BundleReturned == Succeeded(ClinicianClient, "getDailyEntryBundle")

\* The day the clinician page asked for has a daily entry but no row in any
\* table keyed by it, nor a cycle log.
BareDay ==
  \E e \in EntriesFor(call[ClinicianClient].patientId, call[ClinicianClient].date) :
    /\ \A t \in {sleep_blocks, early_morning_entries, daily_fluid_totals,
                 food_events, bowel_movements, exercise_events, vital_readings,
                 medication_intakes, symptom_logs, cycle_logs, regimen_notes,
                 regimen_formulation_intakes, regimen_treatment_completions} :
         \A r \in t : r.daily_entry_id # e.id

\* C13: for a day without sub-records, whether or not its daily entry
\* existed before the call, getDailyEntryBundle throws only if a query
\* failed, and returns empty lists for the ten per-day list fields and
\* undefined for earlyMorning, fluidTotals, cycleLog and regimenNotes; no
\* successful result has a list field that is not a list.
C13_EmptyBundle ==
  LET res == result[ClinicianClient]
  IN /\ BundleDone /\ BareDay =>
          /\ res.status = "error" => res.error = "network"
          /\ res.status = "ok" =>
               /\ \A f \in ListFields \ {"regimenFormulations", "regimenTreatments"} :
                    res.bundle[f] = List({})
               /\ \A f \in SingularFields : res.bundle[f] = Undefined
     /\ BundleReturned => \A f \in ListFields : res.bundle[f].kind = "list"

\* A bundle with empty lists was returned for a day whose entry this call
\* created, while other days have rows in the sub-record tables.
C13_Witness ==
  /\ BundleReturned /\ BareDay
  /\ \E i \in DOMAIN queries[ClinicianClient] :
       queries[ClinicianClient][i] = "daily_entries.insert"
  /\ result[ClinicianClient].bundle.sleepBlocks = List({})
  /\ result[ClinicianClient].bundle.fluidTotals = Undefined
  /\ sleep_blocks # {} /\ daily_fluid_totals # {} /\ cycle_logs # {}

\* C14: a step of getDailyEntryBundle in which a query fails (the anchor
\* lookup or insert, any query of the batch, the second-stage comments
\* query) ends the call with an error and no bundle.
C14_AnyFailureThrows ==
  [][(\/ GetOrCreateFetch(ClinicianClient, TRUE)
      \/ GetOrCreateInsert(ClinicianClient, TRUE)
      \/ \E failAt \in DOMAIN BatchQueries : BundleBatch(ClinicianClient, failAt)
      \/ BundleComments(ClinicianClient, TRUE))
     => /\ pc'[ClinicianClient] = "done"
        /\ result'[ClinicianClient].status = "error"]_vars

\* C18: getDailyEntryBundle issues a cycle_comments query only when the
\* cycle_logs query returned a cycle log for the day, and then exactly one,
\* after the batch; for a day without cycle log it issues none and
\* cycleComments is empty.
C18_CommentsAfterCycleLog ==
  LET issued == queries[ClinicianClient]
      asked == {i \in DOMAIN issued : issued[i] = "cycle_comments"}
  IN BundleReturned =>
       IF result[ClinicianClient].bundle.cycleLog = Undefined
       THEN asked = {} /\ result[ClinicianClient].bundle.cycleComments = List({})
       ELSE asked = {Len(issued)}

\* ------------------------------------------------------------ SpecEnergy
\* The editable EnergySection of a day whose physical score and reflection
\* are set or not, whose other scores are unset and whose cycle_day is 4.

InitEnergy ==
  /\ \E ep \in {NULL, 7}, refl \in {NullText, "note"} :
       LET entry == DailyEntryRow(PageEntry.id, DEV_PATIENT_ID, 1, ep, NULL, NULL, NULL,
                                  NULL, refl, 4)
       IN /\ daily_entries = {entry, Entry("p2", 1)}
          /\ formData = EnergyForm(entry)
  /\ NoEvents
  /\ NoRegimen
  /\ InitClients
  /\ clock = 1
  /\ bundle = NoBundle
  /\ newLog = [c \in Clients |-> NoRow]
  /\ page = NoPage
  /\ inflight = {}
  /\ debounce = NoDebounce

NextEnergy ==
  \/ \E field \in EnergyFields, value \in {0, 5, 8} : EnergyChange(field, value)
  \/ \E text \in {"", "note", "more"} : EnergyChange("reflection", text)
  \/ EnergySave

SpecEnergy == InitEnergy /\ [][NextEnergy]_vars

\* ------------------------------------------------------------ SpecClient
\* The client-side logic that reads no table: the daily-entry page or
\* overlay deciding isEditable, in a browser west of, at or east of UTC at
\* some instant of the latest day, or a mounted useDebounce hook.

InitClient ==
  /\ daily_entries = AllEntries
  /\ NoEvents
  /\ NoRegimen
  /\ InitClients
  /\ clock = 1
  /\ bundle = NoBundle
  /\ newLog = [c \in Clients |-> NoRow]
  /\ inflight = {}
  /\ formData = NoForm
  /\ \/ /\ debounce = NoDebounce
        /\ \E kind \in {"PatientDailyEntryPage", "DailyEntryOverlay"}, readOnly \in BOOLEAN,
              tz \in {-1, 0, 1}, part \in 0..(DayParts - 1), date \in Dates :
             /\ kind = "PatientDailyEntryPage" => ~readOnly /\ date = MaxDate
             /\ page = [kind |-> kind, readOnly |-> readOnly, tz |-> tz,
                        now |-> MaxDate * DayParts + part, selectedDate |-> date,
                        patientConfig |-> NULL, isEditable |-> FALSE]
     \/ /\ page = NoPage
        /\ \E delay \in 1..MaxDelay :
             debounce = [NoDebounce EXCEPT !.delay = delay, !.mounted = TRUE]

NextClient ==
  \/ \E window \in 0..MaxWindow : ConfigLoaded(window)
  \/ \E date \in Dates : SelectDate(date)
  \/ \E value \in {"a", "b", "c"} : DebounceChange(value)
  \/ DebounceTick
  \/ DebounceFire
  \/ DebounceUnmount

SpecClient ==
  InitClient /\ [][NextClient]_vars /\ WF_vars(DebounceTick) /\ WF_vars(DebounceFire)

\* ----------------------------------------------------------- SpecRegimen
\* getRegimenForDate over one formulation and one treatment of patient p1
\* with any validity interval, next to always-valid ones of patient p2.

InitRegimen ==
  /\ daily_entries = AllEntries
  /\ NoEvents
  /\ \E start \in MaybeDates, stop \in MaybeDates :
       regimen_formulations =
         {FormulationRow(1, "p1", start, stop), FormulationRow(3, "p2", NULL, NULL)}
  /\ \E start \in MaybeDates, stop \in MaybeDates :
       regimen_treatments =
         {TreatmentRow(1, "p1", start, stop), TreatmentRow(3, "p2", NULL, NULL)}
  /\ regimen_formulation_intakes = {}
  /\ regimen_treatment_completions = {}
  /\ InitCalls

NextRegimen ==
  \E p \in Patients, date \in Dates, failAt \in 0..2 :
    GetRegimenForDate(ClinicianClient, p, date, failAt)

SpecRegimen == InitRegimen /\ [][NextRegimen]_vars

\* ------------------------------------------------------------- SpecCycle
\* The range functions over cycle logs: each day of patient p1 has no cycle
\* log or one whose cycle_day is unset, 0 or 5; patient p2 has one every day.

LogCycleDays == {NULL, 0, 5}

InitCycle ==
  /\ daily_entries = AllEntries
  /\ food_events = {}
  /\ bowel_movements = {}
  /\ exercise_events = {}
  /\ NoSubRecords
  /\ NoRegimen
  /\ \E logged \in SUBSET Dates, cycleDay \in [Dates -> LogCycleDays] :
       /\ \A d \in Dates \ logged : cycleDay[d] = NULL
       /\ cycle_logs =
            {CycleLogRow(EntryId("p1", d) + 1, EntryId("p1", d), "p1", cycleDay[d], 0) :
               d \in logged}
            \cup {CycleLogRow(EntryId("p2", d) + 1, EntryId("p2", d), "p2", 7, 0) :
                    d \in Dates}
  /\ InitCalls

NextCycle ==
  \E p \in Patients, fromDate \in Dates, toDate \in Dates :
    RangeFetch(ClinicianClient, "getCycleRange", p, fromDate, toDate, 0)

SpecCycle == InitCycle /\ [][NextCycle]_vars

\* ----------------------------------------------------------- SpecTracker
\* A tracker page of patient p1, who has an entry on every day.

InitTracker ==
  /\ daily_entries = AllEntries
  /\ NoEvents
  /\ NoRegimen
  /\ InitCalls

NextTracker ==
  \/ \E d \in Dates : TrackerSetFromDate(d)
  \/ \E d \in Dates : TrackerSetToDate(d)
  \/ \E lens \in {"daily", "cycle"} : TrackerSetLens(lens)
  \/ \E f \in inflight, fails \in BOOLEAN : TrackerResolve(f, fails)

SpecTracker == InitTracker /\ [][NextTracker]_vars

\* ---------------------------------------------------- saves, as specified

CycleLogsOf(entry) == {l \in cycle_logs : l.daily_entry_id = entry.id}

\* C16: in every reachable state each daily entry has at most one
\* cycle_logs row, whatever the interleaving of getOrCreateCycleLog calls
\* and CycleSection saves.
C16_OneCycleLogPerEntry ==
  \A e \in daily_entries : Cardinality(CycleLogsOf(e)) <= 1

\* C17: after any sequence of section saves each daily entry has at most one
\* daily_fluid_totals row, one early_morning_entries row and one
\* sleep_blocks row.
C17_OneSingularPerEntry ==
  \A e \in daily_entries :
    \A t \in {daily_fluid_totals, early_morning_entries, sleep_blocks} :
      Cardinality({r \in t : r.daily_entry_id = e.id}) <= 1

\* C20: the lookup of getOrCreateCycleLog inserts nothing; when rows exist
\* for the entry it returns one with the greatest created_at and the call
\* goes on without inserting; the insert step runs only after a lookup that
\* found no row and adds exactly the row the call returns; the upsert that
\* follows adds no row.
C20_Step(c) ==
  LET rows == CycleLogsOf(PageEntry)
  IN /\ pc[c] = "cycle.fetch" /\ pc'[c] # "cycle.fetch" =>
          /\ cycle_logs' = cycle_logs
          /\ rows = {} => pc'[c] \in {"cycle.insert", "done"}
          /\ rows # {} /\ pc'[c] # "done" =>
               /\ pc'[c] = "cycle.upsert"
               /\ newLog'[c] \in rows
               /\ \A o \in rows : o.created_at <= newLog'[c].created_at
     /\ pc[c] = "cycle.insert" /\ pc'[c] = "cycle.upsert" =>
          /\ cycle_logs' = cycle_logs \cup {newLog'[c]}
          /\ newLog'[c] \notin cycle_logs
          /\ newLog'[c].daily_entry_id = PageEntry.id
     /\ pc[c] = "cycle.insert" /\ pc'[c] = "done" => cycle_logs' = cycle_logs
     /\ pc[c] = "cycle.upsert" /\ pc'[c] # "cycle.upsert" =>
          {l.id : l \in cycle_logs'} = {l.id : l \in cycle_logs}

C20_GetOrCreateCycleLog == [][\A c \in Clients : C20_Step(c)]_vars

\* Two rows exist for the entry, and both invocations, one after the other,
\* obtained the later one from getOrCreateCycleLog.
C20_Witness ==
  /\ Cardinality(CycleLogsOf(PageEntry)) = 2
  /\ \A c \in Clients :
       /\ pc[c] = "done" /\ result[c].status = "ok"
       /\ queries[c] = <<"cycle_logs.select", "cycle_logs.upsert">>
       /\ newLog[c].id = newLog[PatientClient].id
       /\ \A o \in CycleLogsOf(PageEntry) : o.created_at <= newLog[c].created_at

\* ------------------------------------------------- tracker, as specified

\* The data the page holds for the lens of range function fn.
Held(pg, fn) == IF fn = "getDailySummaryRange" THEN pg.summaries ELSE pg.cycleData

\* C19: a fetch that settles successfully writes its result into the page
\* state and clears loading whether or not its range is still the selected
\* one, so an older fetch settling after a newer one leaves the page with
\* data of a range that is not selected.
C19_StaleWrite ==
  [][\A f \in inflight :
       inflight' = inflight \ {f} /\ page'.settled.n = f.n /\ page'.settled.ok =>
         /\ Held(page', f.fn) = RangeResult(f)
         /\ ~page'.loading]_vars

\* No fetch is in flight, the page is not loading, and the data of the
\* active lens are those of a range other than the selected one.
C19_Witness ==
  LET selected == [fn |-> LensFn(page.activeLens), fromDate |-> page.fromDate,
                   toDate |-> page.toDate]
  IN /\ inflight = {}
     /\ ~page.loading /\ ~page.error
     /\ page.settled.ok
     /\ page.settled.fn = selected.fn
     /\ <<page.settled.fromDate, page.settled.toDate>> # <<page.fromDate, page.toDate>>
     /\ Held(page, selected.fn) = RangeResult(page.settled)
     /\ Held(page, selected.fn) # RangeResult(selected)

\* ---------------------------------------------------- cycle day projection

\* The clinician's call of getCycleRange has returned its summaries.
CycleRangeDone ==
  /\ pc[ClinicianClient] = "done"
  /\ call[ClinicianClient].fn = "getCycleRange"
  /\ result[ClinicianClient].status = "ok"

\* C21: each entry returned by getCycleRange carries the cycle_day of its
\* cycle log when the log exists and its cycle_day is set and not 0, and the
\* daily entry's own cycle_day otherwise, a log cycle_day of 0 included.
C21_CycleDayFallback ==
  CycleRangeDone =>
    LET rows == result[ClinicianClient].rows
        p == call[ClinicianClient].patientId
    IN \A i \in 1..Len(rows) :
         LET entry == EntryOn(p, rows[i].date)
             logs == CycleLogsOf(entry)
         IN IF \E l \in logs : l.cycle_day # NULL /\ l.cycle_day # 0
            THEN \E l \in logs : rows[i].cycle_day = l.cycle_day
            ELSE rows[i].cycle_day = entry.cycle_day

\* A returned range of patient p1 holds a day whose log has cycle_day 0 and
\* which shows the entry's cycle_day, a day whose log has cycle_day 5 and
\* shows 5, and a day without a log.
C21_Witness ==
  /\ CycleRangeDone
  /\ call[ClinicianClient].patientId = "p1"
  /\ LET rows == result[ClinicianClient].rows
     IN /\ \E i \in 1..Len(rows) :
             LET entry == EntryOn("p1", rows[i].date)
             IN /\ \E l \in CycleLogsOf(entry) : l.cycle_day = 0
                /\ entry.cycle_day # NULL
                /\ rows[i].cycle_day = entry.cycle_day
        /\ \E i \in 1..Len(rows) :
             /\ \E l \in CycleLogsOf(EntryOn("p1", rows[i].date)) : l.cycle_day = 5
             /\ rows[i].cycle_day = 5
        /\ \E i \in 1..Len(rows) : CycleLogsOf(EntryOn("p1", rows[i].date)) = {}

\* ------------------------------------------ tracker loading and error state

\* C28: loading is true in every state in which a range fetch of the
\* tracker page is in flight.
C28_LoadingWhileInFlight == inflight # {} => page.loading

\* Fetch f settles in this step.
Settles(f) == f \in inflight /\ inflight' = inflight \ {f} /\ page'.settled.n = f.n

\* C29: a failed range fetch leaves summaries and cycleData as they were,
\* sets error and clears loading; starting a fetch resets error before any
\* result arrives; a successful fetch replaces the held data of its lens
\* with exactly the returned sequence and leaves the other lens's data.
C29_Step ==
  /\ \A f \in inflight :
       Settles(f) =>
         IF page'.settled.ok
         THEN /\ Held(page', f.fn) = RangeResult(f)
              /\ f.fn = "getDailySummaryRange" => page'.cycleData = page.cycleData
              /\ f.fn = "getCycleRange" => page'.summaries = page.summaries
              /\ page'.error = page.error
         ELSE /\ page'.summaries = page.summaries
              /\ page'.cycleData = page.cycleData
              /\ page'.error
              /\ ~page'.loading
  /\ page'.started > page.started =>
       /\ ~page'.error
       /\ page'.summaries = page.summaries
       /\ page'.cycleData = page.cycleData

C29_FetchOutcome == [][C29_Step]_vars

\* The last fetch failed after an earlier one had delivered summaries: the
\* summaries are still held, error is set and loading is false.
C29_Witness ==
  /\ page.settled.n > 1
  /\ ~page.settled.ok
  /\ page.error
  /\ ~page.loading
  /\ page.summaries # <<>>
  /\ inflight = {}

\* C22: a fetch that fails records the error and starts no fetch; every
\* fetch the page starts is started by a user action that changes the range
\* or the lens, so a failed fetch is never retried on the page's own.
C22_Step ==
  /\ page'.started > page.started =>
       <<page'.fromDate, page'.toDate, page'.activeLens>>
         # <<page.fromDate, page.toDate, page.activeLens>>
  /\ \A f \in inflight :
       Settles(f) =>
         /\ page'.started = page.started
         /\ <<page'.fromDate, page'.toDate, page'.activeLens>>
              = <<page.fromDate, page.toDate, page.activeLens>>
         /\ ~page'.settled.ok => page'.error

C24_PercentInRange ==
  \A fn \in {"getDailySummaryRange", "getCycleRange"} :
    \A s \in Summaries(fn) :
      /\ s.formulation_adherence_percent \in 0..100
      /\ s.treatment_adherence_percent \in 0..100

\* -------------------------------------------- bundle of a day with duplicates

\* C26: when no request fails in transit, getDailyEntryBundle for a day
\* whose entry has one or more cycle_logs rows succeeds and its cycleLog is
\* the row getOrCreateCycleLog would return, the latest one; more than one
\* daily_fluid_totals or regimen_notes row does not make it fail either.
C26_BundleWithDuplicates ==
  LET res == result[ClinicianClient]
  IN BundleDone /\ res.error # "network" =>
       /\ res.status = "ok"
       /\ \A e \in EntriesFor(call[ClinicianClient].patientId, call[ClinicianClient].date) :
            CycleLogsOf(e) # {} => res.bundle.cycleLog.rows = Latest(CycleLogsOf(e))

\* ------------------------------------------------ regimen of a date

\* C25: the formulations and the treatments getRegimenForDate returns for a
\* patient and a date are those getDailySummaryRange and getCycleRange count
\* as active on an entry of that date.
C25_SameActiveSet ==
  LET c == ClinicianClient
  IN Succeeded(c, "getRegimenForDate") =>
       LET p == call[c].patientId
           date == call[c].date
           regimen == result[c].rows
       IN /\ regimen[1] = activeFormulations(OfPatient(regimen_formulations, p), date)
          /\ regimen[1] = cycleActiveFormulations(OfPatient(regimen_formulations, p), date)
          /\ regimen[2] = activeTreatments(OfPatient(regimen_treatments, p), date)
          /\ regimen[2] = cycleActiveTreatments(OfPatient(regimen_treatments, p), date)

\* -------------------------------------------------- energy save, as specified

EntryColumns == EnergyFields \cup {"reflection", "cycle_day"}

\* C27: a save from the EnergySection changes no column of the daily_entries
\* row other than those whose field the user changed in the form: untouched
\* scores that were unset stay unset, reflection and cycle_day stay as they
\* were.
C27_Step ==
  \A e \in daily_entries : \A e2 \in daily_entries' :
    e2.id = e.id =>
      \A f \in EntryColumns : e2[f] # e[f] => f \in formData.touched

C27_SaveChangesOnlyTouched == [][C27_Step]_vars

\* ---------------------------------------------------- isEditable, as specified

\* The page or overlay has rendered with its config loaded or not.
EditablePage == page # NoPage /\ debounce = NoDebounce

\* C23: isEditable is true exactly when the patient config has loaded, the
\* overlay is not read-only, and today, the browser's calendar day, is at
\* most edit_window_days after the selected date.
C23_IsEditableIff ==
  EditablePage =>
    LET today == (page.now + page.tz) \div DayParts
    IN page.isEditable <=>
         /\ page.patientConfig # NULL
         /\ ~page.readOnly
         /\ today - page.selectedDate <= page.patientConfig

\* --------------------------------------------------- useDebounce, as specified

\* The calls of onSave since the value last changed.
CallsSinceChange == SubSeq(debounce.calls, debounce.mark + 1, Len(debounce.calls))

\* Every call of onSave passed the value rendered at that time, not before
\* delay had passed since its last change, with a value other than the one
\* saved before, and while mounted; there is at most one call per burst; no
\* timer is pending after unmount; and once the value has stayed unchanged
\* for delay with nothing pending, onSave was called once with the latest
\* value if it differs from the value saved before the burst ended, and not
\* at all if it equals it.
DebounceSafe ==
  /\ \A i \in DOMAIN debounce.calls :
       LET c == debounce.calls[i]
       IN /\ c.value = c.current
          /\ c.quiet >= debounce.delay
          /\ c.value # c.previous
          /\ c.mounted
  /\ Len(CallsSinceChange) <= 1
  /\ ~debounce.mounted => debounce.timer = NULL
  /\ debounce.mounted /\ debounce.changes > 0 /\ debounce.quiet >= debounce.delay
       /\ debounce.timer = NULL =>
         IF debounce.value # debounce.base
         THEN Len(CallsSinceChange) = 1 /\ CallsSinceChange[1].value = debounce.value
         ELSE CallsSinceChange = <<>>

====
